---- MODULE Spec2Model ----
(***************************************************************************)
(* Model of compress_video_v2: the NAS claim markers (claim.py), the       *)
(* encode / backup / finalize pipeline (encode.py), the strategy decision  *)
(* (strategy.py), the per-machine SQLite ledger (db.py) and the two worker *)
(* loops, compress_v2.cmd_run (database backed) and compress_v3.cmd_run    *)
(* (filesystem backed).                                                    *)
(*                                                                         *)
(* Several machines share one filesystem (fs), one backup store (bak) and  *)
(* one claim directory (claims).  Each machine has its own ledger.         *)
(* A deployment runs either compress_v2 or compress_v3 on all machines;    *)
(* the variable backend is chosen in Init and never changes.               *)
(*                                                                         *)
(* Paths are records [stem |-> <<tokens>>, ext |-> "mp4"]; the file        *)
(* '.a.tmp.mp4' is [stem |-> <<".", "a", ".tmp">>, ext |-> "mp4"], so that *)
(* Path.stem, str.replace('_compressed', '') and the '_N' / '_skip'        *)
(* suffixes are computed on the name the way the code computes them.       *)
(* All files live in one folder.  Sizes are integers; the float test       *)
(* savings_pct < MIN_SAVINGS_PCT is modelled over the rationals (for file  *)
(* sizes below 2^40 the double rounding never changes its outcome).        *)
(***************************************************************************)
EXTENDS Integers, Sequences, FiniteSets, TLC

VARIABLES
    fs,          \* shared filesystem: path -> content, DOMAIN = existing files
    bak,         \* backup store under BACKUP_BASE: mirrored path -> content
    claims,      \* CLAIM_DIR: video path -> marker file (its creator and payload)
    now,         \* wall clock, in hours
    backend,     \* "v2" (compress_v2.py) or "v3" (compress_v3.py)
    videos,      \* videos[m]: the videos table of machine m, keyed by path
    log,         \* log[m]: the processing_log table of machine m
    pc,          \* pc[m]: position of machine m's worker process
    queue,       \* queue[m]: work items left in this run, head = current
    res,         \* res[m]: result dict of the last encode_video / remux_to_mp4
    stats,       \* stats[m]: the run's counters
    claimAt,     \* claimAt[m]: claimed_at of the claim_data m is about to write
    runs,        \* runs started so far, on any machine
    sweepTodo,   \* sweepTodo[m]: markers the glob of recover_stale still yields
    cutoff,      \* cutoff[m]: the cutoff recover_stale computed
    recovered,   \* recovered[m]: the list recover_stale is building
    faults,      \* failures injected so far (backend, backup, rename, kill)
    orig0,       \* the files present before any run (history variable)
    probe        \* inputs and result of the pure function under test

vars == <<fs, bak, claims, now, backend, videos, log, pc, queue, res, stats,
          claimAt, runs, sweepTodo, cutoff, recovered, faults, orig0, probe>>

Machines == {"m1", "m2"}

\* the machines are interchangeable: the one that starts the first run is called m1
FirstMachine == "m1"

\* ---- bounds of the model ----
\* runs started plus failures injected (a kill, a backend, move or rename error)
MaxEvents == 3
\* the clock stops at MaxHours; it advances by TickHours (> STALE_HOURS) at a time
MaxHours == 36
TickHours == 36
\* file sizes tried on the size gate alone
MaxSize == 40

\* ---- program constants ----
STALE_HOURS == 24
MIN_SAVINGS_PCT == 5
ENCODER_TAG == "compressed_h264_v4"
VIDEO_EXTENSIONS == {"mp4", "mkv", "avi", "mov", "wmv", "flv", "webm", "m4v", "mpeg", "mpg"}

Range(s) == {s[i] : i \in DOMAIN s}
Min(a, b) == IF a < b THEN a ELSE b

\* str.lower() on the codec names and extensions the model uses
Lower(s) ==
    CASE s = "HEVC" -> "hevc"
      [] s = "H264" -> "h264"
      [] s = "AV1" -> "av1"
      [] s = "MP4" -> "mp4"
      [] s = "MKV" -> "mkv"
      [] OTHER -> s

\* ---------------------------------------------------------------- strategy.py

\* a test on the larger of the two dimensions
is_4k_max(width, height) ==
    IF width = 0 \/ height = 0 THEN FALSE
    ELSE (IF width > height THEN width ELSE height) > 1080

is_4k(width, height) ==
    IF width = 0 \/ height = 0 THEN FALSE ELSE Min(width, height) > 1080

is_portrait(width, height) ==
    IF width = 0 \/ height = 0 THEN FALSE ELSE height > width

\* a filter that takes a square frame for a portrait one
get_scale_filter_ge(width, height) ==
    IF width # 0 /\ height # 0 /\ height >= width THEN "scale=1080:-2" ELSE "scale=-2:1080"

get_scale_filter(width, height) ==
    IF is_portrait(width, height) THEN "scale=1080:-2" ELSE "scale=-2:1080"

\* target_cq: <<>> is None, <<n>> is the int n
Decision(action, cq, downscale, gate) ==
    [action |-> action, target_cq |-> cq, downscale_1080p |-> downscale, size_gate |-> gate]

\* a non-MP4 branch that asks for the size gate as the MP4 branch does
decide_non_mp4_gated(codec_lower, width, height) ==
    IF is_4k(width, height) THEN Decision("encode", <<26>>, TRUE, TRUE)
    ELSE IF codec_lower \in {"hevc", "av1"} THEN Decision("remux", <<>>, FALSE, FALSE)
    ELSE Decision("encode", IF codec_lower # "vp9" THEN <<28>> ELSE <<30>>, FALSE, TRUE)

\* a non-MP4 branch that skips HEVC and AV1 as the MP4 branch does
decide_non_mp4_skip(codec_lower, width, height) ==
    IF is_4k(width, height) THEN Decision("encode", <<26>>, TRUE, FALSE)
    ELSE IF codec_lower \in {"hevc", "av1"}
         THEN Decision("skip_" \o codec_lower, <<>>, FALSE, FALSE)
    ELSE Decision("encode", IF codec_lower # "vp9" THEN <<28>> ELSE <<30>>, FALSE, FALSE)

\* a non-MP4 branch that encodes a 4K input at its own resolution
decide_non_mp4_full_size(codec_lower, width, height) ==
    IF is_4k(width, height) THEN Decision("encode", <<26>>, FALSE, FALSE)
    ELSE IF codec_lower \in {"hevc", "av1"} THEN Decision("remux", <<>>, FALSE, FALSE)
    ELSE Decision("encode", IF codec_lower # "vp9" THEN <<28>> ELSE <<30>>, FALSE, FALSE)

\* decide_action, the branch `if not mp4`
decide_non_mp4(codec_lower, width, height) ==
    IF is_4k(width, height) THEN Decision("encode", <<26>>, TRUE, FALSE)
    ELSE IF codec_lower \in {"hevc", "av1"} THEN Decision("remux", <<>>, FALSE, FALSE)
    ELSE Decision("encode", IF codec_lower # "vp9" THEN <<28>> ELSE <<30>>, FALSE, FALSE)

\* an MP4 branch whose bitrate tiers exclude their lower boundary
decide_mp4_gt(codec_lower, bitrate, width, height) ==
    IF is_4k(width, height) THEN Decision("encode", <<26>>, TRUE, TRUE)
    ELSE IF codec_lower = "h264" THEN
        IF bitrate > 2000000 THEN Decision("encode", <<28>>, FALSE, TRUE)
        ELSE IF bitrate > 500000 THEN Decision("encode", <<30>>, FALSE, TRUE)
        ELSE Decision("skip_tiny", <<>>, FALSE, FALSE)
    ELSE IF codec_lower = "hevc" THEN Decision("skip_hevc", <<>>, FALSE, FALSE)
    ELSE IF codec_lower = "av1" THEN Decision("skip_av1", <<>>, FALSE, FALSE)
    ELSE IF codec_lower = "vp9" THEN Decision("encode", <<30>>, FALSE, TRUE)
    ELSE Decision("encode", <<28>>, FALSE, TRUE)

\* decide_action, the MP4 rules
decide_mp4(codec_lower, bitrate, width, height) ==
    IF is_4k(width, height) THEN Decision("encode", <<26>>, TRUE, TRUE)
    ELSE IF codec_lower = "h264" THEN
        IF bitrate >= 2000000 THEN Decision("encode", <<28>>, FALSE, TRUE)
        ELSE IF bitrate >= 500000 THEN Decision("encode", <<30>>, FALSE, TRUE)
        ELSE Decision("skip_tiny", <<>>, FALSE, FALSE)
    ELSE IF codec_lower = "hevc" THEN Decision("skip_hevc", <<>>, FALSE, FALSE)
    ELSE IF codec_lower = "av1" THEN Decision("skip_av1", <<>>, FALSE, FALSE)
    ELSE IF codec_lower = "vp9" THEN Decision("encode", <<30>>, FALSE, TRUE)
    ELSE Decision("encode", <<28>>, FALSE, TRUE)

\* a decision that looks at the tag after the resolution
decide_action_4k_first(codec, bitrate, width, height, has_v2_tag, ext) ==
    IF is_4k(width, height) THEN Decision("encode", <<26>>, TRUE, Lower(ext) = "mp4")
    ELSE IF has_v2_tag THEN Decision("skip_tagged", <<>>, FALSE, FALSE)
    ELSE IF Lower(ext) # "mp4" THEN decide_non_mp4(Lower(codec), width, height)
    ELSE decide_mp4(Lower(codec), bitrate, width, height)

\* decide_action; codec "" is None, bitrate 0 is None or 0, a dimension of 0 is
\* None or 0, and ext is the suffix without its dot ("" for None)
decide_action(codec, bitrate, width, height, has_v2_tag, ext) ==
    LET codec_lower == Lower(codec)
        mp4 == Lower(ext) = "mp4"
    IN  IF has_v2_tag THEN Decision("skip_tagged", <<>>, FALSE, FALSE)
        ELSE IF ~mp4 THEN decide_non_mp4(codec_lower, width, height)
        ELSE decide_mp4(codec_lower, bitrate, width, height)

\* ---------------------------------------------------------------- paths and files

P(stem, ext) == [stem |-> stem, ext |-> ext]

\* a file's content: the original it derives from, how it was produced, and what
\* ffprobe reports for it
Content(src, form, size, codec, bitrate, width, height) ==
    [src |-> src, form |-> form, size |-> size, codec |-> codec,
     bitrate |-> bitrate, width |-> width, height |-> height]

\* ffprobe_info: the comment tag is written by build_cmd / remux_to_mp4
ffprobe_info(c) ==
    [codec |-> c.codec, width |-> c.width, height |-> c.height, bitrate |-> c.bitrate,
     comment |-> IF c.form = "orig" THEN "" ELSE ENCODER_TAG, size |-> c.size]

Exists(fsys, p) == p \in DOMAIN fsys

\* the filesystem with path p holding content c (created or overwritten)
PutFile(fsys, p, c) == [q \in DOMAIN fsys \cup {p} |-> IF q = p THEN c ELSE fsys[q]]

\* the filesystem without path p
DelFile(fsys, p) == [q \in DOMAIN fsys \ {p} |-> fsys[q]]

\* a _cleanup that removes nothing
cleanup_nothing(fsys, p) == fsys

\* _cleanup: unlink, every exception swallowed
cleanup(fsys, p) == IF Exists(fsys, p) THEN DelFile(fsys, p) ELSE fsys

SuffixTok == <<"_1", "_2", "_3", "_4">>

RECURSIVE unique_from(_, _, _)
unique_from(fsys, p, counter) ==
    LET new_path == P(Append(p.stem, SuffixTok[counter]), p.ext)
    IN  IF ~Exists(fsys, new_path) THEN new_path ELSE unique_from(fsys, p, counter + 1)

\* _unique_path
unique_path(fsys, p) == IF ~Exists(fsys, p) THEN p ELSE unique_from(fsys, p, 1)

\* encode_video's temp file, '.{stem}.tmp.mp4'
temp_file(p) == P(<<".">> \o p.stem \o <<".tmp">>, "mp4")

\* encode_video's final path
final_path(fsys, p) ==
    LET fp == P(SelectSeq(p.stem, LAMBDA t : t # "_compressed"), "mp4")
    IN  IF fp # p /\ Exists(fsys, fp) THEN unique_path(fsys, fp) ELSE fp

\* remux_to_mp4's output path, '{stem}.mp4'
remux_path(p) == P(p.stem, "mp4")

\* rename_skip's target, '{stem}_skip.mp4'
skip_path(fsys, p) == unique_path(fsys, P(Append(p.stem, "_skip"), "mp4"))

\* is_processable
is_processable(p) ==
    /\ p.stem[1] # "."
    /\ ".tmp" \notin Range(p.stem)
    /\ "_skip" \notin Range(p.stem)

\* a size gate that also rejects savings of exactly MIN_SAVINGS_PCT
at_most_min_savings(input_size, output_size) ==
    IF input_size > 0
    THEN (input_size - output_size) * 100 <= MIN_SAVINGS_PCT * input_size
    ELSE 0 <= MIN_SAVINGS_PCT

\* size gate of encode_video: savings_pct < MIN_SAVINGS_PCT, where
\* savings_pct = (1 - output_size / input_size) * 100 if input_size > 0 else 0
below_min_savings(input_size, output_size) ==
    IF input_size > 0
    THEN (input_size - output_size) * 100 < MIN_SAVINGS_PCT * input_size
    ELSE 0 < MIN_SAVINGS_PCT

\* encode_video's passed_size_gate for an output that was created
passed_size_gate(size_gate, input_size, output_size) ==
    ~(size_gate /\ below_min_savings(input_size, output_size))

\* ---------------------------------------------------------------- claim.py

\* A marker file: payload is its text (<<>> empty, <<data>> the JSON claim_data);
\* by is the set of processes whose os.open created or opened the file for
\* writing (a history field: os.O_EXCL keeps it a singleton).
Marker(by, payload) == [by |-> by, payload |-> payload]

claim_data(hostname, video_path, claimed_at) ==
    [hostname |-> hostname, video_path |-> video_path, claimed_at |-> claimed_at]

is_claimed(cl, p) == p \in DOMAIN cl

\* os.open without O_EXCL: succeeds whether or not the marker exists
open_without_excl(cl, p) == TRUE

\* os.open(cp, O_CREAT | O_EXCL | O_WRONLY) succeeds iff the marker does not exist
open_excl_succeeds(cl, p) == p \notin DOMAIN cl

\* the claim directory after a successful os.open by m: the file exists, empty
open_marker(cl, p, m) ==
    [q \in DOMAIN cl \cup {p} |->
        IF q = p
        THEN Marker((IF p \in DOMAIN cl THEN cl[p].by ELSE {}) \cup {m},
                    IF p \in DOMAIN cl THEN cl[p].payload ELSE <<>>)
        ELSE cl[q]]

\* os.write(fd, claim_data): reaches the directory's file only while the file
\* m opened is still linked under that name
write_marker(cl, p, m, data) ==
    IF p \in DOMAIN cl /\ m \in cl[p].by
    THEN [cl EXCEPT ![p] = Marker(@.by, <<data>>)]
    ELSE cl

\* release_claim: unlink, FileNotFoundError ignored
release_claim(cl, p) == [q \in DOMAIN cl \ {p} |-> cl[q]]

\* a variant of the age test that also takes the markers exactly max_hours old
marker_verdict_le(cl, cp, cut) ==
    IF cp \notin DOMAIN cl THEN "gone"
    ELSE IF cl[cp].payload = <<>> THEN "corrupted"
    ELSE IF cl[cp].payload[1].claimed_at <= cut THEN "stale"
    ELSE "fresh"

\* recover_stale's verdict on one marker of the glob: "gone" (read_text raised
\* FileNotFoundError), "corrupted" (json.loads raised), "stale", or "fresh"
marker_verdict(cl, cp, cut) ==
    IF cp \notin DOMAIN cl THEN "gone"
    ELSE IF cl[cp].payload = <<>> THEN "corrupted"
    ELSE IF cl[cp].payload[1].claimed_at < cut THEN "stale"
    ELSE "fresh"

\* ---------------------------------------------------------------- db.py

\* a row of the videos table; '' and <<>> are NULL; hist is the sequence of
\* statuses the row has had (history field)
VideoRow(p, size, info, decision, status) ==
    [path |-> p, size_bytes |-> size, codec |-> info.codec, width |-> info.width,
     height |-> info.height, bitrate |-> info.bitrate,
     action |-> decision.action, target_cq |-> decision.target_cq,
     downscale_1080p |-> decision.downscale_1080p,
     status |-> status, claimed_by |-> "", output_path |-> <<>>, output_size |-> <<>>,
     backup_path |-> <<>>, error_message |-> "", hist |-> <<status>>]

MetaCols == {"size_bytes", "codec", "width", "height", "bitrate",
             "action", "target_cq", "downscale_1080p"}

\* an INSERT OR REPLACE: the new row takes the place of the one with its path
upsert_video_replace(vs, row) ==
    [q \in DOMAIN vs \cup {row.path} |-> IF q = row.path THEN row ELSE vs[q]]

\* upsert_video: INSERT ... ON CONFLICT(path) DO UPDATE SET <metadata columns>
upsert_video(vs, row) ==
    IF row.path \in DOMAIN vs
    THEN [vs EXCEPT ![row.path] =
            [f \in DOMAIN @ |-> IF f \in MetaCols THEN row[f] ELSE @[f]]]
    ELSE [q \in DOMAIN vs \cup {row.path} |-> IF q = row.path THEN row ELSE vs[q]]

\* update_status(conn, video_id, status, **kwargs); kw is the record of kwargs
update_status(vs, vid, status, kw) ==
    IF vid \notin DOMAIN vs THEN vs
    ELSE [vs EXCEPT ![vid] =
            [f \in DOMAIN @ |->
                IF f = "status" THEN status
                ELSE IF f = "hist" THEN Append(@.hist, status)
                ELSE IF f \in DOMAIN kw THEN kw[f]
                ELSE @[f]]]

\* a log that keeps the latest event only
log_event_latest(lg, vid, machine, event, details) ==
    <<[video_id |-> vid, machine |-> machine, event |-> event, details |-> details]>>

\* log_event
log_event(lg, vid, machine, event, details) ==
    Append(lg, [video_id |-> vid, machine |-> machine, event |-> event, details |-> details])

\* the elements of items, smallest size first
RECURSIVE by_size_asc(_, _)
by_size_asc(items, sizes) ==
    IF items = {} THEN <<>>
    ELSE LET r == CHOOSE x \in items : \A y \in items : sizes[x] <= sizes[y]
         IN  <<r>> \o by_size_asc(items \ {r}, sizes)

\* the elements of items, largest size first (sizes: element -> size)
RECURSIVE by_size_desc(_, _)
by_size_desc(items, sizes) ==
    IF items = {} THEN <<>>
    ELSE LET r == CHOOSE x \in items : \A y \in items : sizes[y] <= sizes[x]
         IN  <<r>> \o by_size_desc(items \ {r}, sizes)

\* a query that selects on the action alone, whatever the status
get_encodes_any_status(vs) ==
    LET rows == {vs[q] : q \in {x \in DOMAIN vs : vs[x].action = "encode"}}
    IN  by_size_desc(rows, [r \in rows |-> r.size_bytes])

\* get_pending_encodes: action = 'encode' AND status = 'pending' ORDER BY size_bytes DESC
get_pending_encodes(vs) ==
    LET rows == {vs[q] : q \in {x \in DOMAIN vs :
                     vs[x].action = "encode" /\ vs[x].status = "pending"}}
    IN  by_size_desc(rows, [r \in rows |-> r.size_bytes])

\* ---------------------------------------------------------------- initial state

PathA == P(<<"a">>, "mp4")
PathB == P(<<"a">>, "mkv")

\* the library before any run: a.mp4 (H.264 or HEVC, 3 Mbit/s, 1080p) and / or
\* a.mkv (HEVC or H.264, 1080p), untagged
Catalog ==
    { [path |-> PathA, content |-> Content(PathA, "orig", 20, "h264", 3000000, 1920, 1080)],
      [path |-> PathA, content |-> Content(PathA, "orig", 20, "hevc", 3000000, 1920, 1080)],
      [path |-> PathB, content |-> Content(PathB, "orig", 40, "hevc", 3000000, 1920, 1080)],
      [path |-> PathB, content |-> Content(PathB, "orig", 40, "h264", 3000000, 1920, 1080)] }

\* output sizes the transcode backend may produce, in percent of the input size
OutPcts == {95, 100}

StatKeys == {"encoded", "skipped_no_savings", "failed", "already_claimed",
             "compressed", "remuxed", "skipped", "skip_no_savings"}

NoStats == [k \in StatKeys |-> 0]

NoRes == [success |-> FALSE, passed_size_gate |-> FALSE, temp_path |-> <<>>,
          final_path |-> <<>>, output_size |-> 0, error |-> "",
          backup_path |-> <<>>]

NoProbe == [fn |-> "none"]

Init ==
    /\ backend \in {"v2", "v3"}
    /\ \E lib \in SUBSET Catalog :
          /\ lib # {}
          /\ \A f, g \in lib : f.path = g.path => f = g
          /\ fs = [p \in {f.path : f \in lib} |->
                      (CHOOSE f \in lib : f.path = p).content]
    /\ orig0 = fs
    /\ bak = << >>
    /\ claims = << >>
    /\ now = 0
    /\ videos = [m \in Machines |-> << >>]
    /\ log = [m \in Machines |-> << >>]
    /\ pc = [m \in Machines |-> "idle"]
    /\ queue = [m \in Machines |-> << >>]
    /\ res = [m \in Machines |-> NoRes]
    /\ stats = [m \in Machines |-> NoStats]
    /\ claimAt = [m \in Machines |-> 0]
    /\ runs = 0
    /\ sweepTodo = [m \in Machines |-> {}]
    /\ cutoff = [m \in Machines |-> 0]
    /\ recovered = [m \in Machines |-> << >>]
    /\ faults = 0
    /\ probe = NoProbe

\* ---------------------------------------------------------------- frames

sweepVars == <<sweepTodo, cutoff, recovered>>
constVars == <<backend, orig0, probe>>
fixedVars == <<constVars, faults>>

\* an injected failure, within the budget
Fault == runs + faults < MaxEvents /\ faults' = faults + 1
NoFault == faults' = faults

Item(m) == Head(queue[m])
ItemPath(m) == Head(queue[m]).path

Bump(st, k) == [st EXCEPT ![k] = @ + 1]

\* ---------------------------------------------------------------- environment

\* a long time passes; no live worker is inside an item meanwhile (a call of the
\* backend is bounded by its 2 h timeout, far below STALE_HOURS)
Tick ==
    /\ now + TickHours <= MaxHours
    /\ \A m \in Machines : pc[m] = "idle"
    /\ now' = now + TickHours
    /\ UNCHANGED <<fs, bak, claims, videos, log, pc, queue, res, stats, claimAt, runs,
                   sweepVars, fixedVars>>

\* the worker process of m is killed from outside (or its machine goes down);
\* cmd_run installs no handler and has no try / finally, so its locals are lost
\* and nothing it holds on the share is cleaned up
Kill(m) ==
    /\ pc[m] # "idle"
    /\ Fault
    /\ pc' = [pc EXCEPT ![m] = "idle"]
    /\ queue' = [queue EXCEPT ![m] = << >>]
    /\ res' = [res EXCEPT ![m] = NoRes]
    /\ sweepTodo' = [sweepTodo EXCEPT ![m] = {}]
    /\ cutoff' = [cutoff EXCEPT ![m] = 0]
    /\ recovered' = [recovered EXCEPT ![m] = << >>]
    /\ claimAt' = [claimAt EXCEPT ![m] = 0]
    /\ UNCHANGED <<fs, bak, claims, now, videos, log, stats, runs, constVars>>

\* an exception nothing catches ends the process of m with a traceback: the
\* locals are lost, the share and the ledger stay as they are
Uncaught(m) ==
    /\ pc' = [pc EXCEPT ![m] = "idle"]
    /\ queue' = [queue EXCEPT ![m] = << >>]
    /\ res' = [res EXCEPT ![m] = NoRes]

\* ---------------------------------------------------------------- the run command

\* where cmd_run stands once recover_stale is behind it: compress_v2 reads its
\* pending list from the local ledger, compress_v3 goes on to scan the folder
AfterSweep(m) ==
    IF backend = "v2"
    THEN /\ queue' = [queue EXCEPT ![m] = get_pending_encodes(videos[m])]
         /\ pc' = [pc EXCEPT ![m] =
               IF get_pending_encodes(videos[m]) = << >> THEN "idle" ELSE "claim"]
    ELSE /\ queue' = [queue EXCEPT ![m] = << >>]
         /\ pc' = [pc EXCEPT ![m] = "scan"]

\* cmd_run up to the recover-stale flag, with recover_stale's first lines
Run(m, recover_stale) ==
    /\ pc[m] = "idle"
    /\ runs + faults < MaxEvents
    /\ runs = 0 => m = FirstMachine
    /\ recover_stale \/ backend = "v3" \/ get_pending_encodes(videos[m]) # << >>
    /\ runs' = runs + 1
    /\ stats' = [stats EXCEPT ![m] = NoStats]
    /\ res' = [res EXCEPT ![m] = NoRes]
    /\ IF recover_stale
       THEN /\ pc' = [pc EXCEPT ![m] = "sweep"]
            /\ queue' = [queue EXCEPT ![m] = << >>]
            /\ cutoff' = [cutoff EXCEPT ![m] = now - STALE_HOURS]
            /\ sweepTodo' = [sweepTodo EXCEPT ![m] = DOMAIN claims]
            /\ recovered' = [recovered EXCEPT ![m] = << >>]
       ELSE /\ AfterSweep(m)
            /\ UNCHANGED sweepVars
    /\ UNCHANGED <<fs, bak, claims, now, videos, log, claimAt, fixedVars>>

\* recover_stale, one marker of the glob
RecoverStaleStep(m) ==
    /\ pc[m] = "sweep"
    /\ \E cp \in sweepTodo[m] :
          LET verdict == marker_verdict(claims, cp, cutoff[m])
          IN  /\ sweepTodo' = [sweepTodo EXCEPT ![m] = @ \ {cp}]
              /\ claims' = IF verdict \in {"stale", "corrupted"}
                           THEN release_claim(claims, cp) ELSE claims
              /\ recovered' = [recovered EXCEPT ![m] =
                    IF verdict = "stale"
                    THEN Append(@, [claim_file |-> cp, data |-> claims[cp].payload])
                    ELSE IF verdict \in {"corrupted", "gone"}
                    THEN Append(@, [claim_file |-> cp, data |-> <<"corrupted">>])
                    ELSE @]
    /\ UNCHANGED <<fs, bak, now, videos, log, pc, queue, res, stats, claimAt, runs,
                   cutoff, fixedVars>>

\* recover_stale returns
RecoverStaleReturn(m) ==
    /\ pc[m] = "sweep"
    /\ sweepTodo[m] = {}
    /\ cutoff' = [cutoff EXCEPT ![m] = 0]
    /\ recovered' = [recovered EXCEPT ![m] = << >>]
    /\ AfterSweep(m)
    /\ UNCHANGED <<fs, bak, claims, now, videos, log, res, stats, claimAt, runs,
                   sweepTodo, fixedVars>>

\* ---------------------------------------------------------------- encode.py

\* what ffmpeg writes for input content c: H.264 with the ENCODER_TAG comment
encoded(c, output_size, downscale) ==
    Content(c.src, "enc", output_size, "h264", c.bitrate,
            IF downscale THEN Min(c.width, 1920) ELSE c.width,
            IF downscale THEN Min(c.height, 1080) ELSE c.height)

\* what ffmpeg -c copy writes for input content c
remuxed(c) == Content(c.src, "remux", c.size, c.codec, c.bitrate, c.width, c.height)

\* encode_video's result dict when ffmpeg produced an output of output_size
encode_result(fsys, p, size_gate, output_size) ==
    IF passed_size_gate(size_gate, fsys[p].size, output_size)
    THEN [success |-> TRUE, passed_size_gate |-> TRUE, temp_path |-> <<temp_file(p)>>,
          final_path |-> <<final_path(fsys, p)>>, output_size |-> output_size,
          error |-> "", backup_path |-> <<>>]
    ELSE [success |-> TRUE, passed_size_gate |-> FALSE, temp_path |-> <<>>,
          final_path |-> <<>>, output_size |-> output_size, error |-> "",
          backup_path |-> <<>>]

\* move_to_backup's target: BACKUP_BASE / absolute path, made unique
backup_target(bk, p) == unique_path(bk, p)

\* ---------------------------------------------------------------- compress_v2.py

\* the row cmd_scan inserts for a new file (decide_action is called without ext)
scan_row(fsys, p) ==
    LET info == ffprobe_info(fsys[p])
        has_tag == info.comment = ENCODER_TAG
        decision == decide_action(info.codec, info.bitrate, info.width, info.height,
                                  has_tag, "mp4")
    IN  VideoRow(p, fsys[p].size, info, decision,
                 IF decision.action = "encode" THEN "pending" ELSE "skipped")

RECURSIVE upsert_all(_, _, _)
upsert_all(vs, fsys, paths) ==
    IF paths = {} THEN vs
    ELSE LET q == CHOOSE x \in paths : TRUE
         IN  upsert_all(upsert_video(vs, scan_row(fsys, q)), fsys, paths \ {q})

\* cmd_scan; the operator scans the library once, before the runs start to change it
V2Scan(m) ==
    /\ backend = "v2"
    /\ pc[m] = "idle"
    /\ DOMAIN videos[m] = {}
    /\ runs = 0
    /\ LET new_files == {f \in DOMAIN fs :
                            Lower(f.ext) \in VIDEO_EXTENSIONS /\ f \notin DOMAIN videos[m]}
       IN  /\ new_files # {}
           /\ videos' = [videos EXCEPT ![m] = upsert_all(@, fs, new_files)]
    /\ UNCHANGED <<fs, bak, claims, now, log, pc, queue, res, stats, claimAt, runs,
                   sweepVars, fixedVars>>

\* a loop that tries the same video again instead of moving on
V2Retry(m) ==
    /\ queue' = queue
    /\ pc' = [pc EXCEPT ![m] = "claim"]
    /\ res' = [res EXCEPT ![m] = NoRes]

\* 'continue': the loop moves to the next video
V2Next(m) ==
    /\ queue' = [queue EXCEPT ![m] = Tail(@)]
    /\ pc' = [pc EXCEPT ![m] = IF Tail(queue[m]) = << >> THEN "idle" ELSE "claim"]
    /\ res' = [res EXCEPT ![m] = NoRes]

\* a failure branch of cmd_run: status failed, log, release_claim, continue
V2Failed(m, error_message, details) ==
    /\ videos' = [videos EXCEPT ![m] =
          update_status(@, ItemPath(m), "failed", [error_message |-> error_message])]
    /\ log' = [log EXCEPT ![m] = log_event(@, ItemPath(m), m, "failed", details)]
    /\ claims' = release_claim(claims, ItemPath(m))
    /\ stats' = [stats EXCEPT ![m] = Bump(@, "failed")]
    /\ V2Next(m)

\* claim_file, up to os.open
V2ClaimOpen(m) ==
    /\ backend = "v2"
    /\ pc[m] = "claim"
    /\ IF open_excl_succeeds(claims, ItemPath(m))
       THEN /\ claims' = open_marker(claims, ItemPath(m), m)
            /\ claimAt' = [claimAt EXCEPT ![m] = now]
            /\ pc' = [pc EXCEPT ![m] = "claim_write"]
            /\ UNCHANGED <<queue, res, stats>>
       ELSE /\ stats' = [stats EXCEPT ![m] = Bump(@, "already_claimed")]
            /\ V2Next(m)
            /\ UNCHANGED <<claims, claimAt>>
    /\ UNCHANGED <<fs, bak, now, videos, log, runs, sweepVars, fixedVars>>

\* claim_file writes the payload and returns True; then cmd_run's ledger updates
\* around 'Verify file still exists' (all local to m but the existence test)
V2ClaimWrite(m) ==
    /\ backend = "v2"
    /\ pc[m] = "claim_write"
    /\ claimAt' = [claimAt EXCEPT ![m] = 0]
    /\ LET p == ItemPath(m)
           written == write_marker(claims, p, m, claim_data(m, p, claimAt[m]))
           claimed == update_status(videos[m], p, "claimed", [claimed_by |-> m])
           logged == log_event(log[m], p, m, "claimed", "")
       IN  IF ~Exists(fs, p)
           THEN /\ videos' = [videos EXCEPT ![m] =
                      update_status(claimed, p, "failed",
                                    [error_message |-> "File not found"])]
                /\ log' = [log EXCEPT ![m] =
                      log_event(logged, p, m, "failed", "File not found")]
                /\ claims' = release_claim(written, p)
                /\ stats' = [stats EXCEPT ![m] = Bump(@, "failed")]
                /\ V2Next(m)
           ELSE /\ videos' = [videos EXCEPT ![m] =
                      update_status(claimed, p, "encoding", << >>)]
                /\ log' = [log EXCEPT ![m] =
                      log_event(logged, p, m, "encoding_started", "")]
                /\ claims' = written
                /\ pc' = [pc EXCEPT ![m] = "encode"]
                /\ UNCHANGED <<queue, res, stats>>
    /\ UNCHANGED <<fs, bak, now, runs, sweepVars, fixedVars>>

\* encode_video (size_gate left at its default True) and the branches on its result
V2Encode(m) ==
    /\ backend = "v2"
    /\ pc[m] = "encode"
    /\ LET p == ItemPath(m)
           tmp == temp_file(p)
       IN  \/ /\ ~Exists(fs, p)
              /\ NoFault
              /\ Uncaught(m)
              /\ UNCHANGED <<fs, claims, videos, log, stats>>
           \/ \E error \in {"ffmpeg exit 1"} :
                 /\ Fault
                 /\ fs' = cleanup(fs, tmp)
                 /\ V2Failed(m, error, error)
           \/ /\ Exists(fs, p)
              /\ ~Exists(fs, tmp)
              /\ Fault
              /\ fs' = fs
              /\ V2Failed(m, "Output file not created", "Output file not created")
           \/ \E pct \in OutPcts :
                 /\ Exists(fs, p)
                 /\ NoFault
                 /\ LET output_size == (fs[p].size * pct) \div 100
                         fs1 == PutFile(fs, tmp, encoded(fs[p], output_size,
                                                         Item(m).downscale_1080p))
                         result == encode_result(fs1, p, TRUE, output_size)
                     IN  IF ~result.passed_size_gate
                         THEN /\ fs' = cleanup(fs1, tmp)
                              /\ videos' = [videos EXCEPT ![m] =
                                    update_status(@, p, "skipped_no_savings",
                                                  [output_size |-> <<output_size>>])]
                              /\ log' = [log EXCEPT ![m] =
                                    log_event(@, p, m, "skipped_no_savings", "")]
                              /\ stats' = [stats EXCEPT ![m] = Bump(@, "skipped_no_savings")]
                              /\ V2Next(m)
                              /\ UNCHANGED claims
                         ELSE /\ fs' = fs1
                              /\ res' = [res EXCEPT ![m] = result]
                              /\ pc' = [pc EXCEPT ![m] = "backup"]
                              /\ UNCHANGED <<claims, videos, log, queue, stats>>
    /\ UNCHANGED <<bak, now, claimAt, runs, sweepVars, constVars>>

\* a loop body that goes on to finalize without moving the original to the backup
V2NoBackup(m) ==
    /\ backend = "v2"
    /\ pc[m] = "backup"
    /\ pc' = [pc EXCEPT ![m] = "finalize"]
    /\ UNCHANGED <<fs, bak, claims, videos, log, queue, res, stats, now, claimAt, runs,
                   sweepVars, fixedVars>>

\* move_to_backup and the 'Backup failed' branch
V2Backup(m) ==
    /\ backend = "v2"
    /\ pc[m] = "backup"
    /\ LET p == ItemPath(m)
       IN  \/ /\ Exists(fs, p)
              /\ NoFault
              /\ bak' = PutFile(bak, backup_target(bak, p), fs[p])
              /\ fs' = DelFile(fs, p)
              /\ res' = [res EXCEPT ![m].backup_path = <<backup_target(bak, p)>>]
              /\ pc' = [pc EXCEPT ![m] = "finalize"]
              /\ UNCHANGED <<claims, videos, log, queue, stats>>
           \/ /\ IF Exists(fs, p) THEN Fault ELSE NoFault
              /\ fs' = cleanup(fs, res[m].temp_path[1])
              /\ bak' = bak
              /\ V2Failed(m, "Backup failed", "Backup move failed")
    /\ UNCHANGED <<now, claimAt, runs, sweepVars, constVars>>

\* finalize, the 'Rename failed' branch and the success branch
V2Finalize(m) ==
    /\ backend = "v2"
    /\ pc[m] = "finalize"
    /\ LET p == ItemPath(m)
           tmp == res[m].temp_path[1]
           final == res[m].final_path[1]
       IN  \/ /\ Exists(fs, tmp)
              /\ NoFault
              /\ fs' = PutFile(DelFile(fs, tmp), final, fs[tmp])
              /\ videos' = [videos EXCEPT ![m] =
                    update_status(@, p, "compressed",
                                  [output_path |-> <<final>>,
                                   output_size |-> <<res[m].output_size>>,
                                   backup_path |-> res[m].backup_path])]
              /\ log' = [log EXCEPT ![m] = log_event(@, p, m, "compressed", "")]
              /\ stats' = [stats EXCEPT ![m] = Bump(@, "encoded")]
              /\ V2Next(m)
              /\ UNCHANGED claims
           \/ /\ IF Exists(fs, tmp) THEN Fault ELSE NoFault
              /\ fs' = fs
              /\ V2Failed(m, "Rename failed", "Temp rename failed")
    /\ UNCHANGED <<bak, now, claimAt, runs, sweepVars, constVars>>

\* ---------------------------------------------------------------- compress_v3.py

\* the work item scan_folder appends for path p
work_item(fsys, p) ==
    LET info == ffprobe_info(fsys[p])
    IN  [path |-> p, size |-> fsys[p].size, info |-> info, ext |-> Lower(p.ext),
         decision |-> decide_action(info.codec, info.bitrate, info.width, info.height,
                                    FALSE, Lower(p.ext))]

\* a scan that does not look at the comment tag
scan_folder_any_tag(fsys, cl) ==
    LET kept == {p \in DOMAIN fsys :
                    /\ Lower(p.ext) \in VIDEO_EXTENSIONS
                    /\ is_processable(p)
                    /\ ~is_claimed(cl, p)}
        items == {work_item(fsys, p) : p \in kept}
    IN  by_size_desc(items, [w \in items |-> w.size])

\* scan_folder: the files it keeps, largest first
scan_folder(fsys, cl) ==
    LET kept == {p \in DOMAIN fsys :
                    /\ Lower(p.ext) \in VIDEO_EXTENSIONS
                    /\ is_processable(p)
                    /\ ~is_claimed(cl, p)
                    /\ ffprobe_info(fsys[p]).comment # ENCODER_TAG}
        items == {work_item(fsys, p) : p \in kept}
    IN  by_size_desc(items, [w \in items |-> w.size])

\* discover_folders and scan_folder of the one folder
V3Scan(m) ==
    /\ backend = "v3"
    /\ pc[m] = "scan"
    /\ queue' = [queue EXCEPT ![m] = scan_folder(fs, claims)]
    /\ pc' = [pc EXCEPT ![m] = IF scan_folder(fs, claims) = << >> THEN "idle" ELSE "claim"]
    /\ UNCHANGED <<fs, bak, claims, now, videos, log, res, stats, claimAt, runs,
                   sweepVars, fixedVars>>

\* _process_work_item returns: the loop of cmd_run takes the next work item
V3Next(m) ==
    /\ queue' = [queue EXCEPT ![m] = Tail(@)]
    /\ pc' = [pc EXCEPT ![m] = IF Tail(queue[m]) = << >> THEN "idle" ELSE "claim"]
    /\ res' = [res EXCEPT ![m] = NoRes]

\* a failure branch that returns with the claim still held
V3FailedHolding(m) ==
    /\ claims' = claims
    /\ stats' = [stats EXCEPT ![m] = Bump(@, "failed")]
    /\ V3Next(m)

\* a failure branch of _process_work_item: release_claim, stats['failed'], return
V3Failed(m) ==
    /\ claims' = release_claim(claims, ItemPath(m))
    /\ stats' = [stats EXCEPT ![m] = Bump(@, "failed")]
    /\ V3Next(m)

\* _process_work_item, 'Skip actions: just rename'
V3Skip(m) ==
    /\ backend = "v3"
    /\ pc[m] = "claim"
    /\ LET p == ItemPath(m)
           action == Item(m).decision.action
       IN  /\ action \in {"skip_tagged", "skip_tiny", "skip_hevc", "skip_av1"}
           /\ \/ /\ Exists(fs, p)
                 /\ NoFault
                 /\ fs' = PutFile(DelFile(fs, p), skip_path(fs, p), fs[p])
                 /\ stats' = [stats EXCEPT ![m] = Bump(@, "skipped")]
              \/ /\ IF Exists(fs, p) THEN Fault ELSE NoFault
                 /\ fs' = fs
                 /\ stats' = [stats EXCEPT ![m] = Bump(@, "failed")]
    /\ V3Next(m)
    /\ UNCHANGED <<bak, claims, now, videos, log, claimAt, runs, sweepVars,
                   constVars>>

\* claim_file, up to os.open
V3ClaimOpen(m) ==
    /\ backend = "v3"
    /\ pc[m] = "claim"
    /\ Item(m).decision.action \in {"remux", "encode"}
    /\ IF open_excl_succeeds(claims, ItemPath(m))
       THEN /\ claims' = open_marker(claims, ItemPath(m), m)
            /\ claimAt' = [claimAt EXCEPT ![m] = now]
            /\ pc' = [pc EXCEPT ![m] = "claim_write"]
            /\ UNCHANGED <<queue, res, stats>>
       ELSE /\ stats' = [stats EXCEPT ![m] = Bump(@, "already_claimed")]
            /\ V3Next(m)
            /\ UNCHANGED <<claims, claimAt>>
    /\ UNCHANGED <<fs, bak, now, videos, log, runs, sweepVars, fixedVars>>

\* a worker that verifies the file exists but does not re-check the tag
V3ClaimNoRecheck(m) ==
    /\ backend = "v3"
    /\ pc[m] = "claim_write"
    /\ claimAt' = [claimAt EXCEPT ![m] = 0]
    /\ LET p == ItemPath(m)
           written == write_marker(claims, p, m, claim_data(m, p, claimAt[m]))
       IN  IF ~Exists(fs, p)
           THEN /\ claims' = release_claim(written, p)
                /\ stats' = [stats EXCEPT ![m] = Bump(@, "failed")]
                /\ V3Next(m)
           ELSE /\ claims' = written
                /\ pc' = [pc EXCEPT ![m] = Item(m).decision.action]
                /\ UNCHANGED <<queue, res, stats>>
    /\ UNCHANGED <<fs, bak, now, videos, log, runs, sweepVars, fixedVars>>

\* claim_file writes the payload and returns True; 'Verify file still exists' and
\* 'Re-check tag after claiming'
V3ClaimWrite(m) ==
    /\ backend = "v3"
    /\ pc[m] = "claim_write"
    /\ claimAt' = [claimAt EXCEPT ![m] = 0]
    /\ LET p == ItemPath(m)
           written == write_marker(claims, p, m, claim_data(m, p, claimAt[m]))
       IN  IF ~Exists(fs, p)
           THEN /\ claims' = release_claim(written, p)
                /\ stats' = [stats EXCEPT ![m] = Bump(@, "failed")]
                /\ V3Next(m)
           ELSE IF ffprobe_info(fs[p]).comment = ENCODER_TAG
           THEN /\ claims' = release_claim(written, p)
                /\ stats' = stats
                /\ V3Next(m)
           ELSE /\ claims' = written
                /\ pc' = [pc EXCEPT ![m] = Item(m).decision.action]
                /\ UNCHANGED <<queue, res, stats>>
    /\ UNCHANGED <<fs, bak, now, videos, log, runs, sweepVars, fixedVars>>

\* remux_to_mp4 (ffmpeg -y -c copy onto '{stem}.mp4') and the branch on its result
V3Remux(m) ==
    /\ backend = "v3"
    /\ pc[m] = "remux"
    /\ LET p == ItemPath(m)
           out == remux_path(p)
       IN  \/ /\ Exists(fs, p)
              /\ NoFault
              /\ fs' = PutFile(fs, out, remuxed(fs[p]))
              /\ res' = [res EXCEPT ![m] =
                    [NoRes EXCEPT !.success = TRUE, !.final_path = <<out>>,
                                  !.output_size = fs[p].size]]
              /\ pc' = [pc EXCEPT ![m] = "remux_backup"]
              /\ UNCHANGED <<claims, queue, stats>>
           \/ /\ IF Exists(fs, p) THEN Fault ELSE NoFault
              /\ fs' = cleanup(fs, out)
              /\ V3Failed(m)
    /\ UNCHANGED <<bak, now, videos, log, claimAt, runs, sweepVars, constVars>>

\* the remux branch after remux_to_mp4: move_to_backup of the original
V3RemuxBackup(m) ==
    /\ backend = "v3"
    /\ pc[m] = "remux_backup"
    /\ LET p == ItemPath(m)
       IN  \/ /\ Exists(fs, p)
              /\ NoFault
              /\ bak' = PutFile(bak, backup_target(bak, p), fs[p])
              /\ fs' = DelFile(fs, p)
              /\ stats' = [stats EXCEPT ![m] = Bump(@, "remuxed")]
              /\ claims' = release_claim(claims, p)
              /\ V3Next(m)
           \/ /\ IF Exists(fs, p) THEN Fault ELSE NoFault
              /\ fs' = cleanup(fs, res[m].final_path[1])
              /\ bak' = bak
              /\ V3Failed(m)
    /\ UNCHANGED <<now, videos, log, claimAt, runs, sweepVars, constVars>>

\* encode_video with the decision's size_gate, and the branches on its result
V3Encode(m) ==
    /\ backend = "v3"
    /\ pc[m] = "encode"
    /\ LET p == ItemPath(m)
           tmp == temp_file(p)
       IN  \/ /\ ~Exists(fs, p)
              /\ NoFault
              /\ Uncaught(m)
              /\ UNCHANGED <<fs, claims, stats>>
           \/ /\ Exists(fs, p)
              /\ Fault
              /\ \/ fs' = cleanup(fs, tmp)
                 \/ ~Exists(fs, tmp) /\ fs' = fs
              /\ V3Failed(m)
           \/ \E pct \in OutPcts :
                 /\ Exists(fs, p)
                 /\ LET output_size == (fs[p].size * pct) \div 100
                        fs1 == PutFile(fs, tmp, encoded(fs[p], output_size,
                                                        Item(m).decision.downscale_1080p))
                        result == encode_result(fs1, p, Item(m).decision.size_gate,
                                                output_size)
                        fs2 == cleanup(fs1, tmp)
                    IN  IF ~result.passed_size_gate
                        THEN /\ \/ /\ NoFault
                                   /\ fs' = PutFile(DelFile(fs2, p), skip_path(fs2, p), fs2[p])
                                \/ /\ Fault
                                   /\ fs' = fs2
                             /\ stats' = [stats EXCEPT ![m] = Bump(@, "skip_no_savings")]
                             /\ claims' = release_claim(claims, p)
                             /\ V3Next(m)
                        ELSE /\ NoFault
                             /\ fs' = fs1
                             /\ res' = [res EXCEPT ![m] = result]
                             /\ pc' = [pc EXCEPT ![m] = "backup"]
                             /\ UNCHANGED <<claims, queue, stats>>
    /\ UNCHANGED <<bak, now, videos, log, claimAt, runs, sweepVars, constVars>>

\* move_to_backup and the 'could not backup original' branch
V3Backup(m) ==
    /\ backend = "v3"
    /\ pc[m] = "backup"
    /\ LET p == ItemPath(m)
       IN  \/ /\ Exists(fs, p)
              /\ NoFault
              /\ bak' = PutFile(bak, backup_target(bak, p), fs[p])
              /\ fs' = DelFile(fs, p)
              /\ res' = [res EXCEPT ![m].backup_path = <<backup_target(bak, p)>>]
              /\ pc' = [pc EXCEPT ![m] = "finalize"]
              /\ UNCHANGED <<claims, queue, stats>>
           \/ /\ IF Exists(fs, p) THEN Fault ELSE NoFault
              /\ fs' = cleanup(fs, res[m].temp_path[1])
              /\ bak' = bak
              /\ V3Failed(m)
    /\ UNCHANGED <<now, videos, log, claimAt, runs, sweepVars, constVars>>

\* finalize, the 'could not rename temp file' branch and the success branch
V3Finalize(m) ==
    /\ backend = "v3"
    /\ pc[m] = "finalize"
    /\ LET p == ItemPath(m)
           tmp == res[m].temp_path[1]
           final == res[m].final_path[1]
       IN  \/ /\ Exists(fs, tmp)
              /\ NoFault
              /\ fs' = PutFile(DelFile(fs, tmp), final, fs[tmp])
              /\ stats' = [stats EXCEPT ![m] = Bump(@, "compressed")]
              /\ claims' = release_claim(claims, p)
              /\ V3Next(m)
           \/ /\ IF Exists(fs, tmp) THEN Fault ELSE NoFault
              /\ fs' = fs
              /\ V3Failed(m)
    /\ UNCHANGED <<bak, now, videos, log, claimAt, runs, sweepVars, constVars>>

V3Step(m) ==
    \/ V3Scan(m)
    \/ V3Skip(m)
    \/ V3ClaimOpen(m)
    \/ V3ClaimWrite(m)
    \/ V3Remux(m)
    \/ V3RemuxBackup(m)
    \/ V3Encode(m)
    \/ V3Backup(m)
    \/ V3Finalize(m)

V2Step(m) ==
    \/ V2Scan(m)
    \/ V2ClaimOpen(m)
    \/ V2ClaimWrite(m)
    \/ V2Encode(m)
    \/ V2Backup(m)
    \/ V2Finalize(m)

Next ==
    \/ Tick
    \/ \E m \in Machines :
          \/ Kill(m)
          \/ \E recover_stale \in BOOLEAN : Run(m, recover_stale)
          \/ RecoverStaleStep(m)
          \/ RecoverStaleReturn(m)
          \/ V2Step(m)
          \/ V3Step(m)

Spec == Init /\ [][Next]_vars

\* ---------------------------------------------------------------- steps, as the properties name them

\* m is inside _process_work_item / the loop body of cmd_run, past claim_file
Holding == {"claim_write", "encode", "backup", "finalize", "remux", "remux_backup"}

\* this step is a claim_file call of m that returned True / False
ClaimTrue(m) == pc[m] = "claim" /\ pc'[m] = "claim_write"
ClaimFalse(m) ==
    pc[m] = "claim" /\ stats'[m]["already_claimed"] = stats[m]["already_claimed"] + 1

\* this step kills the process of m
KillStep(m) ==
    pc[m] # "idle" /\ pc'[m] = "idle" /\ faults' = faults + 1 /\ stats' = stats

\* the action decided for the item at the head of m's queue
ItemAction(m) == IF backend = "v2" THEN Item(m).action ELSE Item(m).decision.action

\* this step is a claim_file call of m
ClaimCall(m) ==
    /\ pc[m] = "claim"
    /\ ItemAction(m) \in {"encode", "remux"}
    /\ ~KillStep(m)
    /\ <<pc[m], queue[m]>>' # <<pc[m], queue[m]>>

\* ---------------------------------------------------------------- C1

\* C1: claim exclusivity. A claim_file(p) call returns True only when no marker
\* for p exists, and then the marker is the caller's alone; while a marker for p
\* exists every claim_file(p) returns False and leaves the claim directory as it
\* is; a marker disappears only by release_claim of a worker working on p or by
\* a recovery sweep; killing a worker changes no marker.
C1_ClaimExclusivity ==
    [][\A m \in Machines :
          /\ ClaimTrue(m) =>
                /\ ItemPath(m) \notin DOMAIN claims
                /\ claims'[ItemPath(m)].by = {m}
          /\ ClaimCall(m) /\ ItemPath(m) \in DOMAIN claims =>
                /\ ClaimFalse(m)
                /\ claims' = claims
          /\ KillStep(m) => claims' = claims
          /\ \A p \in DOMAIN claims :
                p \notin DOMAIN claims' =>
                   \E w \in Machines :
                      \/ pc[w] = "sweep"
                      \/ pc[w] \in Holding /\ ItemPath(w) = p]_vars

\* C1 witness: m1 was killed while holding the claim on a file, the marker is
\* still there, and m2's claim_file on it has returned False
C1_Witness ==
    \E p \in DOMAIN claims :
       /\ claims[p].by = {"m1"}
       /\ pc["m1"] = "idle"
       /\ faults = 1
       /\ stats["m2"]["already_claimed"] = 1
       /\ backend = "v2" => videos["m1"][p].status = "encoding"


\* ---------------------------------------------------------------- C2

\* the statuses the row of p has had in m's ledger
StatusHistory(m, p) == IF p \in DOMAIN videos[m] THEN Range(videos[m][p].hist) ELSE {}

\* C2 as stated: of two machines working on the same pending path, at most one
\* ever reaches status encoding for it
C2_Original ==
    \A p \in DOMAIN orig0 :
       Cardinality({m \in Machines : "encoding" \in StatusHistory(m, p)}) <= 1

\* C2 amended: a machine whose claim_file returns False counts already_claimed,
\* changes nothing in its ledger or on the share and drops the item for this
\* pass without calling the backend; a machine gets to claimed / encoding, and
\* to the backend, only from a claim_file of its own that returned True
C2_LoserDoesNothing ==
    [][\A m \in Machines :
          /\ ClaimFalse(m) =>
                /\ videos' = videos /\ log' = log
                /\ fs' = fs /\ bak' = bak /\ claims' = claims
                /\ queue'[m] = Tail(queue[m])
                /\ pc'[m] \in {"claim", "idle"}
                /\ \A i \in DOMAIN queue'[m] : queue'[m][i].path # ItemPath(m)
          /\ pc'[m] = "claim_write" /\ pc[m] # "claim_write" => ClaimTrue(m)
          /\ pc'[m] \in {"encode", "remux"} /\ pc[m] # pc'[m] => pc[m] = "claim_write"
          /\ \A p \in DOMAIN videos'[m] :
                (videos'[m][p].status \in {"claimed", "encoding"}
                    /\ videos[m][p].status # videos'[m][p].status) =>
                   pc[m] = "claim_write" /\ ItemPath(m) = p]_vars

\* C2 witness: m1 is encoding the file; m2's claim_file on it has returned False
\* and m2's row for it is still the scanned one
C2_Witness ==
    /\ backend = "v2"
    /\ pc["m1"] = "encode"
    /\ stats["m2"]["already_claimed"] = 1
    /\ videos["m2"][ItemPath("m1")].hist = <<"pending">>
    /\ log["m2"] = << >>

\* ---------------------------------------------------------------- C3

\* the content of the pre-existing original p is on the share or in the backup store
Recoverable(p) ==
    \/ \E q \in DOMAIN fs : fs[q] = orig0[p]
    \/ \E b \in DOMAIN bak : bak[b] = orig0[p]

\* C3: recoverability. In every reachable state the content of every
\* pre-existing original file is still present, on the share or under the
\* backup store
C3_Recoverability == \A p \in DOMAIN orig0 : Recoverable(p)

\* ---------------------------------------------------------------- C4

\* the rows marked compressed, as <<machine, path>>
Compressed ==
    {x \in Machines \X DOMAIN orig0 :
        x[2] \in DOMAIN videos[x[1]] /\ videos[x[1]][x[2]].status = "compressed"}

\* b is the backup path mirroring p, or that path with a numeric suffix
Mirrors(b, p) ==
    /\ b.ext = p.ext
    /\ \/ b.stem = p.stem
       \/ \E i \in DOMAIN SuffixTok : b.stem = Append(p.stem, SuffixTok[i])

CommitStep(m, p) ==
    /\ p \in DOMAIN videos[m]
    /\ videos[m][p].status # "compressed"
    /\ videos'[m][p].status = "compressed"

C5_ReleasedAfterCommit ==
    [][\A m \in Machines : \A p \in DOMAIN orig0 :
          CommitStep(m, p) => p \notin DOMAIN claims']_vars

\* ---------------------------------------------------------------- C6

\* this step ends m's attempt on the item at the head of its queue (the process
\* is not killed from outside)
AttemptEnds(m) == pc[m] \in Holding /\ pc'[m] \in {"claim", "idle"} /\ ~KillStep(m)

\* C6: every attempt of compress_v2 that ends after a successful claim without a
\* commit or a size-gate rejection leaves the row failed with a non-empty
\* message and the claim released; no attempt ends with the row still claimed
\* or encoding
C6_FailureIsTerminal ==
    [][\A m \in Machines :
          (backend = "v2" /\ AttemptEnds(m)) =>
             LET p == ItemPath(m)
                 row == videos'[m][p]
             IN  /\ row.status \in {"failed", "compressed", "skipped_no_savings"}
                 /\ row.status = "failed" =>
                       /\ row.error_message # ""
                       /\ p \notin DOMAIN claims'
                       /\ queue'[m] = Tail(queue[m])]_vars

\* ---------------------------------------------------------------- C7

\* this step is a move_to_backup of m (encode branch) that returned None
BackupFails(m) == pc[m] = "backup" /\ AttemptEnds(m)

\* C7: when move_to_backup fails the item goes no further (finalize is not
\* called), the temporary artifact is removed, the source file is still at its
\* original path, unchanged, the claim is released and compress_v2 records the
\* item as failed
C7_BackupFailure ==
    [][\A m \in Machines :
          BackupFails(m) =>
             LET p == ItemPath(m)
             IN  /\ pc'[m] # "finalize" /\ queue'[m] = Tail(queue[m])
                 /\ ~Exists(fs', res[m].temp_path[1])
                 /\ Exists(fs', p) /\ Exists(fs, p) /\ fs'[p] = fs[p]
                 /\ bak' = bak
                 /\ p \notin DOMAIN claims'
                 /\ backend = "v2" => videos'[m][p].status = "failed"]_vars

\* ---------------------------------------------------------------- C8

\* this step is a finalize of m that returned False
FinalizeFails(m) ==
    /\ pc[m] = "finalize"
    /\ AttemptEnds(m)
    /\ backend = "v2" => videos'[m][ItemPath(m)].status = "failed"
    /\ backend = "v3" => stats'[m]["failed"] = stats[m]["failed"] + 1

\* C8: when finalize fails after move_to_backup succeeded, the item ends failed
\* with the claim released, the original is at its backup path and nothing is
\* at the source path, and the worker neither restores nor retries the item
C8_FinalizeFailure ==
    [][\A m \in Machines :
          FinalizeFails(m) =>
             LET p == ItemPath(m)
             IN  /\ ~Exists(fs', p)
                 /\ Exists(bak', res[m].backup_path[1])
                 /\ bak' = bak /\ fs' = fs
                 /\ p \notin DOMAIN claims'
                 /\ queue'[m] = Tail(queue[m])]_vars

\* ---------------------------------------------------------------- C10

\* this step is an encode_video of m whose output the size gate rejected
GateRejects(m) ==
    /\ pc[m] = "encode"
    /\ \/ stats'[m]["skipped_no_savings"] = stats[m]["skipped_no_savings"] + 1
       \/ stats'[m]["skip_no_savings"] = stats[m]["skip_no_savings"] + 1

\* C10 as stated: on a size-gate rejection the original is left in place and
\* the claim is not released, the marker is still there when the worker moves on
C10_Original ==
    [][\A m \in Machines :
          GateRejects(m) =>
             /\ Exists(fs', ItemPath(m))
             /\ ItemPath(m) \in DOMAIN claims']_vars

\* C10 amended: on a size-gate rejection the temporary artifact is discarded and
\* the worker moves on. compress_v2 leaves the original in place, sets the
\* status to skipped_no_savings and does not call release_claim (the claim
\* directory is as it was). compress_v3 renames the original to
\* '{stem}_skip.mp4' (or leaves it in place when the rename fails) and
\* releases the claim
C10_GateRejection ==
    [][\A m \in Machines :
          GateRejects(m) =>
             LET p == ItemPath(m)
             IN  /\ ~Exists(fs', temp_file(p))
                 /\ queue'[m] = Tail(queue[m])
                 /\ bak' = bak
                 /\ backend = "v2" =>
                       /\ Exists(fs', p) /\ fs'[p] = fs[p]
                       /\ videos'[m][p].status = "skipped_no_savings"
                       /\ claims' = claims
                 /\ backend = "v3" =>
                       /\ p \notin DOMAIN claims'
                       /\ \/ Exists(fs', p) /\ fs'[p] = fs[p]
                          \/ /\ ~Exists(fs', p)
                             /\ \E q \in DOMAIN fs' \ DOMAIN fs :
                                   /\ fs'[q] = fs[p]
                                   /\ "_skip" \in Range(q.stem)]_vars

\* C10 witness: compress_v2 on m1 has rejected the encode of a.mp4: the row is
\* skipped_no_savings, the original is in place, no temporary artifact is
\* left, m1's marker is still there and m1 has moved on
C10_Witness ==
    /\ backend = "v2"
    /\ PathA \in DOMAIN videos["m1"]
    /\ videos["m1"][PathA].status = "skipped_no_savings"
    /\ Exists(fs, PathA) /\ fs[PathA] = orig0[PathA]
    /\ ~Exists(fs, temp_file(PathA))
    /\ PathA \in DOMAIN claims /\ claims[PathA].by = {"m1"}
    /\ pc["m1"] = "idle"

\* ---------------------------------------------------------------- the size gate alone

\* encode_video's size-gate decision applied to one pair of sizes
SizeGateProbe ==
    /\ probe = NoProbe
    /\ \E size_gate \in BOOLEAN, input_size \in 0..MaxSize, output_size \in 0..MaxSize :
          probe' = [fn |-> "encode_video", size_gate |-> size_gate,
                    input_size |-> input_size, output_size |-> output_size,
                    passed_size_gate |-> passed_size_gate(size_gate, input_size,
                                                          output_size)]
    /\ UNCHANGED <<fs, bak, claims, now, backend, videos, log, pc, queue, res, stats,
                   claimAt, runs, sweepVars, faults, orig0>>

InitGate == Init /\ backend = "v2" /\ DOMAIN fs = {PathA} /\ fs[PathA].codec = "h264"

SpecGate == InitGate /\ [][SizeGateProbe]_vars

\* ---------------------------------------------------------------- C9

\* a size-gate decision has been probed
Probed == probe # NoProbe

\* C9 as stated: with the gate required an output is rejected exactly when
\* 100 * output_size >= 95 * input_size
C9_Original ==
    (Probed /\ probe.size_gate) =>
        (~probe.passed_size_gate <=> 100 * probe.output_size >= 95 * probe.input_size)

\* C9 amended: with the gate required an output is rejected exactly when
\* 100 * output_size > 95 * input_size or input_size = 0, so an output of
\* exactly 0.95 * input_size (savings of exactly MIN_SAVINGS_PCT) is accepted;
\* without the gate every output is accepted
C9_SizeGate ==
    Probed =>
        /\ probe.size_gate =>
              (~probe.passed_size_gate <=>
                  \/ 100 * probe.output_size > 95 * probe.input_size
                  \/ probe.input_size = 0)
        /\ ~probe.size_gate => probe.passed_size_gate

\* C9 witness: the boundary, an output of 19 for an input of 20 with the gate
\* required, is accepted
C9_Witness ==
    /\ Probed
    /\ probe.size_gate /\ probe.input_size = 20 /\ probe.output_size = 19
    /\ probe.passed_size_gate

\* ---------------------------------------------------------------- C11

\* this step starts a transcode of p on m: encode_video is called for p
StartsEncode(m, p) ==
    /\ pc[m] = "claim_write" /\ pc'[m] = "encode"
    /\ ItemPath(m) = p

\* the size gate has rejected p on some machine other than m (its ledger says so)
RejectedElsewhere(m, p) ==
    \E w \in Machines \ {m} :
       p \in DOMAIN videos[w] /\ videos[w][p].status = "skipped_no_savings"

\* C11: once the size gate has rejected a file on one machine, no other machine
\* ever starts a transcode of that file, whatever runs follow (runs with the
\* recover-stale flag included); no step of the model clears a claim by hand
C11_NoRetryAfterRejection ==
    [][\A m \in Machines : \A p \in DOMAIN orig0 :
          RejectedElsewhere(m, p) => ~StartsEncode(m, p)]_vars

\* ---------------------------------------------------------------- C12

\* a claim_file of m has returned True and this step is what the worker does next:
\* the re-validation of the file and what follows from it
ClaimWriteStep(m) == pc[m] = "claim_write" /\ pc'[m] # "claim_write" /\ ~KillStep(m)

\* the re-validation finds a mismatch: the file is gone, or (compress_v3 only)
\* the re-probe shows the ENCODER_TAG comment
Mismatch(m) ==
    \/ ~Exists(fs, ItemPath(m))
    \/ backend = "v3" /\ ffprobe_info(fs[ItemPath(m)]).comment = ENCODER_TAG

\* the worker drops the item after the re-validation
RevalidationAborts(m) == ClaimWriteStep(m) /\ pc'[m] \in {"claim", "idle"}

\* C12 as stated: on a mismatch the worker releases the claim and aborts the
\* item without calling the backend and without any ledger mutation
C12_Original ==
    [][\A m \in Machines :
          (ClaimWriteStep(m) /\ Mismatch(m)) =>
             /\ RevalidationAborts(m)
             /\ ItemPath(m) \notin DOMAIN claims'
             /\ videos' = videos /\ log' = log]_vars

\* C12 amended: the worker aborts the item after its claim exactly when the file
\* is gone or (compress_v3) already carries the tag; it then releases the claim
\* and moves on without calling the backend or touching a file. compress_v3
\* keeps no ledger; compress_v2 has by then recorded the row as claimed and
\* records it as failed with the message 'File not found', with one log event
\* for each
C12_Revalidation ==
    [][\A m \in Machines :
          ClaimWriteStep(m) =>
             LET p == ItemPath(m)
             IN  /\ Mismatch(m) <=> RevalidationAborts(m)
                 /\ RevalidationAborts(m) =>
                       /\ p \notin DOMAIN claims'
                       /\ fs' = fs /\ bak' = bak
                       /\ res'[m] = NoRes
                       /\ queue'[m] = Tail(queue[m])
                       /\ backend = "v3" => videos' = videos /\ log' = log
                       /\ backend = "v2" =>
                             /\ videos'[m][p].status = "failed"
                             /\ videos'[m][p].error_message = "File not found"
                             /\ videos'[m][p].hist =
                                   videos[m][p].hist \o <<"claimed", "failed">>
                             /\ Len(log'[m]) = Len(log[m]) + 2]_vars

\* C12 witness: compress_v2 on m2 claimed a.mp4 after m1's failed finalize had
\* left nothing at that path: the row went from claimed to failed with
\* 'File not found' and the claim is released
C12_Witness ==
    /\ backend = "v2"
    /\ PathA \in DOMAIN videos["m2"]
    /\ videos["m2"][PathA].hist = <<"pending", "claimed", "failed">>
    /\ videos["m2"][PathA].error_message = "File not found"
    /\ ~Exists(fs, PathA)
    /\ PathA \notin DOMAIN claims

\* ---------------------------------------------------------------- C13

\* the edges of the status machine as the specification draws it
StatusEdges ==
    { <<"pending", "claimed">>, <<"claimed", "encoding">>,
      <<"encoding", "compressed">>, <<"encoding", "skipped_no_savings">>,
      <<"encoding", "failed">> }

TerminalStatuses == {"compressed", "skipped_no_savings", "failed", "done"}

\* the status changes a row has gone through, as pairs <<from, to>>
HistEdges(h) == {<<h[i], h[i + 1]>> : i \in 1..(Len(h) - 1)}

\* C13 as stated, its first part: every status change the worker loop makes
\* follows pending -> claimed -> encoding -> {compressed, skipped_no_savings,
\* failed}
C13_Original ==
    \A m \in Machines : \A p \in DOMAIN videos[m] :
       HistEdges(videos[m][p].hist) \subseteq StatusEdges

\* C13 amended: the status changes of the worker loop follow the edges above
\* and one more, claimed -> failed (the file was gone after the claim); a row
\* whose status is terminal is in no work queue, is never the object of a
\* claim_file call (only pending rows are) and is never changed again
C13_StatusMachine ==
    /\ [](\A m \in Machines :
            /\ \A p \in DOMAIN videos[m] :
                  /\ HistEdges(videos[m][p].hist) \subseteq
                        StatusEdges \cup {<<"claimed", "failed">>}
                  /\ videos[m][p].hist[1] \in {"pending", "skipped"}
            /\ backend = "v2" =>
                  \A i \in DOMAIN queue[m] :
                     videos[m][queue[m][i].path].status \notin TerminalStatuses)
    /\ [][\A m \in Machines :
            /\ (backend = "v2" /\ ClaimCall(m)) =>
                  videos[m][ItemPath(m)].status = "pending"
            /\ \A p \in DOMAIN videos[m] :
                  videos[m][p].status \in TerminalStatuses =>
                     videos'[m][p] = videos[m][p]]_vars

\* C13 witness: m1's row of a.mp4 failed in its first run; m1 has since started
\* a second run (its counters are reset) that selected nothing and ended
C13_Witness ==
    /\ backend = "v2"
    /\ PathA \in DOMAIN videos["m1"]
    /\ videos["m1"][PathA].hist = <<"pending", "claimed", "encoding", "failed">>
    /\ videos["m2"] = << >>
    /\ runs = 2
    /\ stats["m1"] = NoStats
    /\ pc = [m \in Machines |-> "idle"]

\* ---------------------------------------------------------------- claim.py, call by call

\* The functions of claim.py called one after the other on the claim directory,
\* each call running from start to end with no other process in between.
\* probe records the last call: its arguments, the directory before it (before),
\* the clock (at) and what it returned (ret).

StorePaths == {PathA, PathB}

\* the orders in which CLAIM_DIR.glob('*.claim') may yield the markers in S
Orders(S) == {s \in [1..Cardinality(S) -> S] : Range(s) = S}

\* the tuple recover_stale appends for marker cp
recovered_entry(cl, cp, verdict) ==
    IF verdict = "stale"
    THEN [claim_file |-> cp, data |-> cl[cp].payload]
    ELSE [claim_file |-> cp, data |-> <<"corrupted">>]

\* recover_stale's loop over the markers in order, the cutoff computed
RECURSIVE recover_stale_from(_, _, _, _, _)
recover_stale_from(cl, order, cut, dry_run, rec) ==
    IF order = << >> THEN [store |-> cl, recovered |-> rec]
    ELSE LET cp == Head(order)
             verdict == marker_verdict(cl, cp, cut)
             listed == verdict \in {"stale", "corrupted", "gone"}
             unlinked == verdict \in {"stale", "corrupted"} /\ ~dry_run
         IN  recover_stale_from(IF unlinked THEN release_claim(cl, cp) ELSE cl,
                                Tail(order), cut, dry_run,
                                IF listed THEN Append(rec, recovered_entry(cl, cp, verdict))
                                ELSE rec)

\* a recover_stale that unlinks whatever dry_run says
recover_stale_always(cl, at, max_hours, dry_run, order) ==
    recover_stale_from(cl, order, at - max_hours, FALSE, << >>)

\* recover_stale(max_hours, dry_run) at time at: the directory afterwards and
\* the list returned
recover_stale_call(cl, at, max_hours, dry_run, order) ==
    recover_stale_from(cl, order, at - max_hours, dry_run, << >>)

\* the entry list_claims appends for marker cp
claims_entry(cl, cp) ==
    IF cl[cp].payload = << >>
    THEN [claim_file |-> cp, error |-> "corrupted"]
    ELSE [claim_file |-> cp, hostname |-> cl[cp].payload[1].hostname,
          video_path |-> cl[cp].payload[1].video_path,
          claimed_at |-> cl[cp].payload[1].claimed_at]

\* an enumeration that stops at the first marker it cannot parse
RECURSIVE list_claims_abort(_, _)
list_claims_abort(cl, order) ==
    IF order = << >> \/ cl[Head(order)].payload = << >> THEN << >>
    ELSE <<claims_entry(cl, Head(order))>> \o list_claims_abort(cl, Tail(order))

\* list_claims
RECURSIVE list_claims(_, _)
list_claims(cl, order) ==
    IF order = << >> THEN << >>
    ELSE <<claims_entry(cl, Head(order))>> \o list_claims(cl, Tail(order))

\* what Path.unlink raises on the marker of p
unlink_raises(cl, p) == IF p \in DOMAIN cl THEN "none" ELSE "FileNotFoundError"

\* a release_claim without its except clause
release_claim_uncaught(cl, p) == unlink_raises(cl, p) # "none"

\* release_claim lets an exception through unless it is FileNotFoundError
release_claim_raises(cl, p) == unlink_raises(cl, p) \notin {"none", "FileNotFoundError"}

storeFrame == <<fs, bak, now, backend, videos, log, pc, queue, res, stats, claimAt,
                runs, sweepVars, faults, orig0>>

\* claim_file(p) on machine m, from start to end
StoreClaim(m, p) ==
    /\ claims' = IF open_excl_succeeds(claims, p)
                 THEN write_marker(open_marker(claims, p, m), p, m, claim_data(m, p, now))
                 ELSE claims
    /\ probe' = [fn |-> "claim_file", path |-> p, before |-> claims, at |-> now,
                 ret |-> open_excl_succeeds(claims, p)]
    /\ UNCHANGED storeFrame

\* claim_file(p) on machine m, the process killed between os.open and os.write
StoreClaimKilled(m, p) ==
    /\ open_excl_succeeds(claims, p)
    /\ claims' = open_marker(claims, p, m)
    /\ probe' = [fn |-> "claim_file killed", path |-> p, before |-> claims, at |-> now]
    /\ UNCHANGED storeFrame

\* release_claim(p)
StoreRelease(p) ==
    /\ claims' = release_claim(claims, p)
    /\ probe' = [fn |-> "release_claim", path |-> p, before |-> claims, at |-> now,
                 raised |-> release_claim_raises(claims, p)]
    /\ UNCHANGED storeFrame

\* recover_stale(max_hours, dry_run)
StoreRecover(max_hours, dry_run) ==
    /\ \E order \in Orders(DOMAIN claims) :
          LET result == recover_stale_call(claims, now, max_hours, dry_run, order)
          IN  /\ claims' = result.store
              /\ probe' = [fn |-> "recover_stale", max_hours |-> max_hours,
                           dry_run |-> dry_run, order |-> order, before |-> claims,
                           at |-> now, ret |-> result.recovered]
    /\ UNCHANGED storeFrame

\* list_claims()
StoreList ==
    /\ \E order \in Orders(DOMAIN claims) :
          probe' = [fn |-> "list_claims", order |-> order, before |-> claims,
                    at |-> now, ret |-> list_claims(claims, order)]
    /\ UNCHANGED <<claims, storeFrame>>

InitStore == Init /\ backend = "v2" /\ DOMAIN fs = {PathA} /\ fs[PathA].codec = "h264"

NextStore ==
    \/ Tick
    \/ \E m \in Machines, p \in StorePaths : StoreClaim(m, p)
    \/ \E m \in Machines, p \in StorePaths : StoreClaimKilled(m, p)
    \/ \E p \in StorePaths : StoreRelease(p)
    \/ \E max_hours \in {STALE_HOURS, TickHours}, dry_run \in BOOLEAN :
          StoreRecover(max_hours, dry_run)
    \/ StoreList

SpecStore == InitStore /\ [][NextStore]_vars

\* ---------------------------------------------------------------- C14

\* the last call was recover_stale with this dry_run
Swept(dry_run) == probe.fn = "recover_stale" /\ probe.dry_run = dry_run

\* the markers of directory cl that cannot be parsed / that were claimed before cut
Corrupted(cl) == {cp \in DOMAIN cl : cl[cp].payload = << >>}
OlderThan(cl, cut) ==
    {cp \in DOMAIN cl \ Corrupted(cl) : cl[cp].payload[1].claimed_at < cut}

\* the markers a list of recover_stale names
Listed(ret) == {ret[i].claim_file : i \in DOMAIN ret}

\* C14: recover_stale(max_hours, dry_run=False), run alone on the directory,
\* removes exactly the markers claimed more than max_hours ago and the markers
\* whose payload cannot be parsed (whatever their age); every other marker is
\* still there, unchanged; the returned list names exactly the removed
\* markers, each once, with the payload of a stale one and the 'corrupted'
\* flag of an unparsable one
C14_RecoverStale ==
    Swept(FALSE) =>
       LET before == probe.before
           cut == probe.at - probe.max_hours
           gone == Corrupted(before) \cup OlderThan(before, cut)
       IN  /\ DOMAIN claims = DOMAIN before \ gone
           /\ \A cp \in DOMAIN claims : claims[cp] = before[cp]
           /\ Corrupted(claims) = {} /\ OlderThan(claims, cut) = {}
           /\ Listed(probe.ret) = gone
           /\ Len(probe.ret) = Cardinality(gone)
           /\ \A i \in DOMAIN probe.ret :
                 probe.ret[i].data =
                    IF probe.ret[i].claim_file \in Corrupted(before)
                    THEN <<"corrupted">>
                    ELSE before[probe.ret[i].claim_file].payload

\* C14 witness: a sweep with max_hours = 36 at hour 36 over a marker without
\* payload and a marker claimed at hour 0 (exactly max_hours old) has removed
\* the first and kept the second
C14_Witness ==
    /\ Swept(FALSE)
    /\ probe.at = TickHours /\ probe.max_hours = TickHours
    /\ DOMAIN probe.before = {PathA, PathB}
    /\ Corrupted(probe.before) = {PathA}
    /\ probe.before[PathB].payload[1].claimed_at = 0
    /\ DOMAIN claims = {PathB}
    /\ Len(probe.ret) = 1

\* ---------------------------------------------------------------- C15

\* C15: recover_stale with dry_run=True leaves every marker and its payload as
\* it was, and returns the list that recover_stale with dry_run=False returns
\* on the same directory at the same time (the markers that call removes)
C15_DryRun ==
    Swept(TRUE) =>
       LET real == recover_stale_call(probe.before, probe.at, probe.max_hours,
                                      FALSE, probe.order)
       IN  /\ claims = probe.before
           /\ probe.ret = real.recovered
           /\ Listed(probe.ret) = DOMAIN probe.before \ DOMAIN real.store

\* C15 witness: a dry run at hour 36 over a marker without payload and a marker
\* claimed at hour 0 has listed both and removed neither
C15_Witness ==
    /\ Swept(TRUE)
    /\ probe.at = TickHours /\ probe.max_hours = STALE_HOURS
    /\ Corrupted(probe.before) = {PathA}
    /\ OlderThan(probe.before, probe.at - probe.max_hours) = {PathB}
    /\ Listed(probe.ret) = {PathA, PathB}
    /\ DOMAIN claims = {PathA, PathB}

\* ---------------------------------------------------------------- C16

\* this step is recover_stale on m reading the marker cp (cp.read_text())
SweepReads(m, cp) ==
    /\ pc[m] = "sweep" /\ pc'[m] = "sweep"
    /\ cp \in sweepTodo[m] /\ cp \notin sweepTodo'[m]

\* worker w is inside claim_file(cp), between os.open and os.write
InsideClaimFile(w, cp) == pc[w] = "claim_write" /\ ItemPath(w) = cp

\* C16: claim_file creates the marker and writes its payload in one atomic
\* step: a recover_stale of another worker never reads a marker that a
\* claim_file in progress has created and that has no payload yet
C16_AtomicPayload ==
    [][\A m \in Machines : \A cp \in DOMAIN claims :
          (SweepReads(m, cp) /\ \E w \in Machines \ {m} : InsideClaimFile(w, cp)) =>
             claims[cp].payload # << >>]_vars

\* ---------------------------------------------------------------- C17

\* the last call was release_claim
Released == probe.fn = "release_claim"

\* C17: release_claim is idempotent. release_claim(p) raises nothing; it leaves
\* the directory without a marker for p and every other marker as it was, so
\* with no marker for p it changes nothing; a second release_claim(p) would
\* raise nothing and leave the directory as the first left it; a claim_file(p)
\* that follows returns True
C17_ReleaseIdempotent ==
    /\ [](Released =>
            LET before == probe.before
                p == probe.path
            IN  /\ ~probe.raised
                /\ DOMAIN claims = DOMAIN before \ {p}
                /\ \A q \in DOMAIN claims : claims[q] = before[q]
                /\ p \notin DOMAIN before => claims = before
                /\ release_claim(claims, p) = claims
                /\ ~release_claim_raises(claims, p))
    /\ [][(Released /\ probe'.fn = "claim_file" /\ probe'.path = probe.path) =>
             /\ probe'.ret
             /\ probe.path \in DOMAIN claims'
             /\ claims'[probe.path].payload # << >>]_vars

\* C17 witness: release_claim(a.mp4) was called with no marker for a.mp4 in the
\* directory, which held a marker for a.mkv: nothing was raised and the
\* directory is as it was
C17_Witness ==
    /\ Released
    /\ probe.path = PathA
    /\ DOMAIN probe.before = {PathB}
    /\ claims = probe.before
    /\ ~probe.raised

\* ---------------------------------------------------------------- C18

\* the last call was list_claims
ListedClaims == probe.fn = "list_claims"

\* C18: list_claims returns one entry for every marker in the directory and no
\* other: the entry of a marker whose payload parses carries the payload's
\* hostname, video_path and claimed_at, the entry of a marker whose payload does
\* not parse carries error = 'corrupted', and the markers around a corrupted one
\* are all listed; the directory is left as it was
C18_ListClaims ==
    ListedClaims =>
       LET before == probe.before
           ret == probe.ret
       IN  /\ claims = before
           /\ Len(ret) = Cardinality(DOMAIN before)
           /\ {ret[i].claim_file : i \in DOMAIN ret} = DOMAIN before
           /\ \A i \in DOMAIN ret :
                 LET cp == ret[i].claim_file
                 IN  IF before[cp].payload = << >>
                     THEN DOMAIN ret[i] = {"claim_file", "error"} /\ ret[i].error = "corrupted"
                     ELSE /\ "error" \notin DOMAIN ret[i]
                          /\ ret[i].hostname = before[cp].payload[1].hostname
                          /\ ret[i].video_path = before[cp].payload[1].video_path
                          /\ ret[i].claimed_at = before[cp].payload[1].claimed_at

\* C18 witness: list_claims met a marker without payload first and a marker
\* with a payload second, and returned an entry for each
C18_Witness ==
    /\ ListedClaims
    /\ Len(probe.order) = 2
    /\ probe.before[probe.order[1]].payload = << >>
    /\ probe.before[probe.order[2]].payload # << >>
    /\ Len(probe.ret) = 2
    /\ probe.ret[1].error = "corrupted"
    /\ probe.ret[2].hostname \in Machines

\* ---------------------------------------------------------------- compress_v2.py, import and fix-audit

\* The ledger commands of compress_v2 around the worker loop: cmd_import
\* (bootstrap from video_inventory.json and audit_results.csv), cmd_scan,
\* cmd_fix_audit and cmd_run, on one machine.  The share holds a.mp4, either
\* untouched or already compressed by an earlier run (then tagged, with the
\* original in the backup store unless that backup was lost).

AuditClasses == {"none", "good", "bigger", "marginal", "missing"}

\* the status cmd_import gives a row
import_status(audit_class, decision) ==
    IF audit_class = "good" THEN "done"
    ELSE IF audit_class \in {"bigger", "marginal"} THEN "needs_remediation"
    ELSE IF audit_class = "missing" THEN "failed"
    ELSE IF decision.action = "encode" THEN "pending"
    ELSE "skipped"

\* the row cmd_import writes for an inventory entry (the entry has no comment
\* field and decide_action is called without has_v2_tag and ext); backup is the
\* backup_path column of the audit row, <<>> when empty
import_row(p, entry, audit_class, backup) ==
    LET decision == decide_action(entry.codec, entry.bitrate, entry.width,
                                  entry.height, FALSE, "mp4")
        status == import_status(audit_class, decision)
        row == VideoRow(p, entry.size, entry, decision, status)
    IN  IF audit_class \in {"bigger", "marginal", "good"} /\ backup # << >>
        THEN [row EXCEPT !.backup_path = backup, !.hist = Append(@, status)]
        ELSE row

\* get_needs_remediation: status = 'needs_remediation' ORDER BY size_bytes DESC
get_needs_remediation(vs) ==
    LET rows == {vs[q] : q \in {x \in DOMAIN vs : vs[x].status = "needs_remediation"}}
    IN  by_size_desc(rows, [r \in rows |-> r.size_bytes])

\* get_backup_path: BACKUP_BASE / absolute path
get_backup_path(p) == p

\* a remediation that always re-enters pending
remediated_pending(decision) == "pending"

\* cmd_fix_audit's new_status
remediated_status(decision) == IF decision.action = "encode" THEN "pending" ELSE "skipped"

\* cmd_import; the inventory lists the files of the share as ffprobe sees them
Import(m) ==
    /\ backend = "v2"
    /\ pc[m] = "idle"
    /\ DOMAIN videos[m] = {}
    /\ runs = 0
    /\ \E audit_class \in AuditClasses, backup \in {<< >>, <<PathA>>} :
          videos' = [videos EXCEPT ![m] =
             [p \in DOMAIN fs |->
                 import_row(p, ffprobe_info(fs[p]), audit_class, backup)]]
    /\ UNCHANGED <<fs, bak, claims, now, log, pc, queue, res, stats, claimAt, runs,
                   sweepVars, fixedVars>>

\* cmd_fix_audit (not dry_run) up to its loop; the command counts as a run
FixAuditStart(m) ==
    /\ backend = "v2"
    /\ pc[m] = "idle"
    /\ runs + faults < MaxEvents
    /\ get_needs_remediation(videos[m]) # << >>
    /\ runs' = runs + 1
    /\ queue' = [queue EXCEPT ![m] = get_needs_remediation(videos[m])]
    /\ pc' = [pc EXCEPT ![m] = "fix"]
    /\ UNCHANGED <<fs, bak, claims, now, videos, log, res, stats, claimAt,
                   sweepVars, fixedVars>>

\* 'continue' in cmd_fix_audit's loop
FixNext(m) ==
    /\ queue' = [queue EXCEPT ![m] = Tail(@)]
    /\ pc' = [pc EXCEPT ![m] = IF Tail(queue[m]) = << >> THEN "idle" ELSE "fix"]

\* the backup file cmd_fix_audit looks for
fix_backup(video) ==
    IF video.backup_path # << >> THEN video.backup_path[1] ELSE get_backup_path(video.path)

\* cmd_fix_audit, one item of the loop
FixAuditItem(m) ==
    /\ backend = "v2"
    /\ pc[m] = "fix"
    /\ LET video == Item(m)
           p == video.path
           backup == fix_backup(video)
       IN  \/ /\ ~Exists(bak, backup)
              /\ NoFault
              /\ log' = [log EXCEPT ![m] =
                    log_event(@, p, m, "remediation_skip", "Backup not found")]
              /\ UNCHANGED <<fs, bak, videos>>
           \/ /\ Exists(bak, backup) /\ Exists(fs, p)
              /\ Fault
              /\ log' = [log EXCEPT ![m] =
                    log_event(@, p, m, "remediation_failed", "unlink")]
              /\ UNCHANGED <<fs, bak, videos>>
           \/ /\ Exists(bak, backup)
              /\ Fault
              /\ fs' = cleanup(fs, p)
              /\ log' = [log EXCEPT ![m] =
                    log_event(@, p, m, "remediation_failed", "move")]
              /\ UNCHANGED <<bak, videos>>
           \/ /\ Exists(bak, backup)
              /\ fs' = PutFile(fs, p, bak[backup])
              /\ bak' = DelFile(bak, backup)
              /\ \/ /\ Fault
                    /\ videos' = [videos EXCEPT ![m] =
                          update_status(@, p, "pending", << >>)]
                    /\ log' = log
                 \/ /\ NoFault
                    /\ LET info == ffprobe_info(bak[backup])
                           decision == decide_action(info.codec, info.bitrate,
                                          info.width, info.height, FALSE, "mp4")
                       IN  /\ videos' = [videos EXCEPT ![m] =
                                 update_status(@, p, remediated_status(decision),
                                    [action |-> decision.action,
                                     target_cq |-> decision.target_cq,
                                     downscale_1080p |-> decision.downscale_1080p,
                                     codec |-> info.codec, width |-> info.width,
                                     height |-> info.height, bitrate |-> info.bitrate,
                                     size_bytes |-> bak[backup].size,
                                     backup_path |-> << >>, output_path |-> << >>,
                                     output_size |-> << >>, error_message |-> ""])]
                           /\ log' = [log EXCEPT ![m] =
                                 log_event(@, p, m, "remediated", decision.action)]
    /\ FixNext(m)
    /\ UNCHANGED <<claims, now, res, stats, claimAt, runs, sweepVars, constVars>>

\* a.mp4 before it was first compressed
Originals == {f.content : f \in {g \in Catalog : g.path = PathA}}

InitLedger ==
    /\ backend = "v2"
    /\ \E c \in Originals, compressed \in BOOLEAN, kept \in BOOLEAN :
          /\ orig0 = [p \in {PathA} |-> c]
          /\ fs = [p \in {PathA} |->
                      IF compressed THEN encoded(c, (c.size * 95) \div 100, FALSE) ELSE c]
          /\ bak = IF compressed /\ kept THEN [p \in {PathA} |-> c] ELSE << >>
    /\ claims = << >>
    /\ now = 0
    /\ videos = [m \in Machines |-> << >>]
    /\ log = [m \in Machines |-> << >>]
    /\ pc = [m \in Machines |-> "idle"]
    /\ queue = [m \in Machines |-> << >>]
    /\ res = [m \in Machines |-> NoRes]
    /\ stats = [m \in Machines |-> NoStats]
    /\ claimAt = [m \in Machines |-> 0]
    /\ runs = 0
    /\ sweepTodo = [m \in Machines |-> {}]
    /\ cutoff = [m \in Machines |-> 0]
    /\ recovered = [m \in Machines |-> << >>]
    /\ faults = 0
    /\ probe = NoProbe

NextLedger ==
    \/ Import(FirstMachine)
    \/ V2Scan(FirstMachine)
    \/ FixAuditStart(FirstMachine)
    \/ FixAuditItem(FirstMachine)
    \/ Run(FirstMachine, FALSE)
    \/ V2ClaimOpen(FirstMachine)
    \/ V2ClaimWrite(FirstMachine)
    \/ V2Encode(FirstMachine)
    \/ V2Backup(FirstMachine)
    \/ V2Finalize(FirstMachine)

SpecLedger == InitLedger /\ [][NextLedger]_vars

\* ---------------------------------------------------------------- C19

\* the file at p carries the current ENCODER_TAG comment
Tagged(p) == Exists(fs, p) /\ ffprobe_info(fs[p]).comment = ENCODER_TAG

\* C19: the worker never calls claim_file for a file that carries the current
\* tag and never starts a transcode of it, whether the file entered the ledger
\* by cmd_scan, by cmd_import or by cmd_fix_audit
C19_TaggedNeverClaimed ==
    [][\A m \in Machines :
          (ClaimCall(m) \/ StartsEncode(m, ItemPath(m))) => ~Tagged(ItemPath(m))]_vars

\* ---------------------------------------------------------------- C20

\* this step is cmd_fix_audit on m handling the item at the head of its list
FixStep(m) == pc[m] = "fix" /\ queue'[m] = Tail(queue[m])

\* the step restored the file and re-decided it (it logged 'remediated')
Remediated(m) ==
    /\ FixStep(m)
    /\ Len(log'[m]) = Len(log[m]) + 1
    /\ log'[m][Len(log'[m])].event = "remediated"

\* the backup of the item at the head of m's list is not there
BackupMissing(m) == ~Exists(bak, fix_backup(Item(m)))

\* C20 as stated: a successful remediation restores the original from the
\* backup and leaves the item pending; an item whose backup is missing keeps its
\* status and no file is deleted
C20_Original ==
    [][\A m \in Machines :
          FixStep(m) =>
             LET p == ItemPath(m)
             IN  /\ Remediated(m) =>
                       /\ fs'[p] = bak[fix_backup(Item(m))]
                       /\ videos'[m][p].status = "pending"
                 /\ BackupMissing(m) =>
                       /\ videos'[m][p].status = "needs_remediation"
                       /\ fs' = fs /\ bak' = bak]_vars

\* C20 amended: a successful remediation moves the original from the backup to
\* the original path (replacing the compressed file), stores the re-probed
\* metadata and the decision of the current strategy in the row, clears the
\* row's backup, output and error columns, and leaves the row pending when the
\* decision is encode and skipped otherwise; an item whose backup is missing
\* keeps its row as it is, only a 'remediation_skip' event is logged, and no
\* file is touched
C20_Remediation ==
    [][\A m \in Machines :
          FixStep(m) =>
             LET p == ItemPath(m)
                 backup == fix_backup(Item(m))
                 row == videos'[m][p]
             IN  /\ Remediated(m) =>
                       LET info == ffprobe_info(fs'[p])
                           decision == decide_action(info.codec, info.bitrate,
                                          info.width, info.height, FALSE, "mp4")
                       IN  /\ Exists(bak, backup) /\ fs'[p] = bak[backup]
                           /\ ~Exists(bak', backup)
                           /\ row.codec = info.codec /\ row.bitrate = info.bitrate
                           /\ row.size_bytes = info.size
                           /\ row.action = decision.action
                           /\ row.target_cq = decision.target_cq
                           /\ row.status =
                                 IF decision.action = "encode" THEN "pending" ELSE "skipped"
                           /\ row.backup_path = << >> /\ row.output_path = << >>
                           /\ row.error_message = ""
                 /\ BackupMissing(m) =>
                       /\ videos' = videos
                       /\ videos[m][p].status = "needs_remediation"
                       /\ fs' = fs /\ bak' = bak
                       /\ log'[m][Len(log'[m])].event = "remediation_skip"]_vars

\* C20 witness: the HEVC original of a.mp4 has been restored from the backup;
\* the current strategy decides skip_hevc for it and the row, which was
\* needs_remediation, is now skipped
C20_Witness ==
    /\ PathA \in DOMAIN videos[FirstMachine]
    /\ "needs_remediation" \in Range(videos[FirstMachine][PathA].hist)
    /\ videos[FirstMachine][PathA].status = "skipped"
    /\ videos[FirstMachine][PathA].action = "skip_hevc"
    /\ Exists(fs, PathA) /\ fs[PathA] = orig0[PathA]
    /\ ~Exists(bak, PathA)
    /\ log[FirstMachine] # << >>
    /\ log[FirstMachine][Len(log[FirstMachine])].event = "remediated"

\* ---------------------------------------------------------------- C21

\* rows of machine m's ledger that cmd_run has marked claimed or encoding
InFlight(m) == {p \in DOMAIN videos[m] : videos[m][p].status \in {"claimed", "encoding"}}

\* C21: a worker takes one file at a time, so at any time at most one video of
\* a worker's ledger has status claimed or encoding.
C21_OneInFlight == \A m \in Machines : Cardinality(InFlight(m)) <= 1

\* ---------------------------------------------------------------- the size order

MaxLimit == 3

\* get_pending_encodes(conn, limit): limit is <<>> for None and <<n>> for n;
\* `if limit:` adds the LIMIT clause for a non-zero limit only, and SQLite
\* reads a negative LIMIT as no limit
get_pending_encodes_limit(vs, limit) ==
    LET rows == get_pending_encodes(vs)
    IN  IF limit = << >> \/ limit[1] = 0 THEN rows
        ELSE IF limit[1] < 0 THEN rows
        ELSE SubSeq(rows, 1, Min(limit[1], Len(rows)))

PathC == P(<<"b">>, "mp4")
QueryPaths == {PathA, PathB, PathC}
QuerySizes == {10, 20}

\* the rows a ledger may hold for path p: inserted by cmd_scan or cmd_import as
\* an encode or a skip, done by a run, or re-imported with another codec (the
\* upsert changes the action and keeps the status)
QueryRows(p) ==
    { VideoRow(p, size, ffprobe_info(Content(p, "orig", size, codec, 3000000, 1920, 1080)),
               decide_action(codec, 3000000, 1920, 1080, FALSE, "mp4"), status) :
          size \in QuerySizes, codec \in {"h264", "hevc"},
          status \in {"pending", "done"} }

QueryLedgers ==
    UNION { {vs \in [S -> UNION {QueryRows(p) : p \in QueryPaths}] :
                \A p \in S : vs[p].path = p} : S \in SUBSET QueryPaths }

\* the folders scan_folder may see: untagged originals of the two sizes
QueryFolders ==
    UNION { [S -> QuerySizes] : S \in SUBSET QueryPaths }

queryFrame == <<fs, bak, claims, now, backend, videos, log, pc, queue, res, stats,
                claimAt, runs, sweepVars, faults, orig0>>

\* one call of get_pending_encodes
PendingProbe ==
    /\ probe = NoProbe
    /\ \E vs \in QueryLedgers, limit \in {<< >>} \cup {<<n>> : n \in -1..MaxLimit} :
          probe' = [fn |-> "get_pending_encodes", vs |-> vs, limit |-> limit,
                    ret |-> get_pending_encodes_limit(vs, limit)]
    /\ UNCHANGED queryFrame

\* one call of scan_folder on a folder with no claim on it
ScanProbe ==
    /\ probe = NoProbe
    /\ \E sizes \in QueryFolders :
          LET fsys == [p \in DOMAIN sizes |->
                          Content(p, "orig", sizes[p], "h264", 3000000, 1920, 1080)]
          IN  probe' = [fn |-> "scan_folder", fsys |-> fsys,
                        ret |-> scan_folder(fsys, << >>)]
    /\ UNCHANGED queryFrame

InitQuery == Init /\ backend = "v2" /\ DOMAIN fs = {PathA} /\ fs[PathA].codec = "h264"

NextQuery == PendingProbe \/ ScanProbe

SpecQuery == InitQuery /\ [][NextQuery]_vars

\* ---------------------------------------------------------------- C22

Queried == probe.fn = "get_pending_encodes"
Scanned == probe.fn = "scan_folder"

\* the rows get_pending_encodes selects from
PendingRows(vs) ==
    {vs[q] : q \in {x \in DOMAIN vs : vs[x].action = "encode" /\ vs[x].status = "pending"}}

\* ret lists elements of S without repetition, in non-increasing order of the
\* column col, and what it leaves out of S is no larger than what it lists
LargestOf(ret, S, col) ==
    /\ Range(ret) \subseteq S
    /\ Cardinality(Range(ret)) = Len(ret)
    /\ \A i, j \in 1..Len(ret) : i < j => ret[i][col] >= ret[j][col]
    /\ \A r \in S \ Range(ret) : \A i \in 1..Len(ret) : r[col] <= ret[i][col]

\* the work items of scan_folder are the folder's files, largest first
ScanOrdered ==
    Scanned =>
        /\ LargestOf(probe.ret, Range(probe.ret), "size")
        /\ {w.path : w \in Range(probe.ret)} = DOMAIN probe.fsys
        /\ Len(probe.ret) = Cardinality(DOMAIN probe.fsys)

\* C22 as stated: get_pending_encodes returns exactly the encode rows that are
\* pending, in non-increasing size, and with a limit the largest `limit` of
\* them; scan_folder orders its work items by non-increasing size.
C22_Original ==
    /\ Queried =>
          /\ LargestOf(probe.ret, PendingRows(probe.vs), "size_bytes")
          /\ probe.limit = << >> => Range(probe.ret) = PendingRows(probe.vs)
          /\ probe.limit # << >> /\ probe.limit[1] >= 0 =>
                Len(probe.ret) = Min(probe.limit[1], Cardinality(PendingRows(probe.vs)))
    /\ ScanOrdered

\* C22, amended: get_pending_encodes returns the encode rows that are pending in
\* non-increasing size; all of them when the limit is None, 0 or negative, and
\* the largest `limit` of them when the limit is positive; scan_folder orders
\* its work items by non-increasing size.
C22_PendingOrder ==
    /\ Queried =>
          /\ LargestOf(probe.ret, PendingRows(probe.vs), "size_bytes")
          /\ Len(probe.ret) =
                IF probe.limit # << >> /\ probe.limit[1] > 0
                THEN Min(probe.limit[1], Cardinality(PendingRows(probe.vs)))
                ELSE Cardinality(PendingRows(probe.vs))
    /\ ScanOrdered

\* a limit of 1 applied to two pending encodes of different sizes, beside rows
\* that are not pending encodes
C22_Witness ==
    /\ Queried
    /\ probe.limit = <<1>>
    /\ Cardinality({r.size_bytes : r \in PendingRows(probe.vs)}) = 2
    /\ Cardinality(DOMAIN probe.vs) = 3
    /\ Len(probe.ret) = 1

\* ---------------------------------------------------------------- the tables of db.py

MaxOps == 4

TablePaths == {PathA, PathB}

\* the database after init_db on a new file: both tables empty; seq is the
\* AUTOINCREMENT counter of videos.id, last the statement executed last
NoTables == [fn |-> "db", videos |-> << >>, seq |-> 0, log |-> << >>, ops |-> 0,
             last |-> [op |-> "init_db"]]

\* the index of the row of tbl whose column col is v, 0 when there is none
RowWhere(tbl, col, v) ==
    IF \E i \in 1..Len(tbl) : tbl[i][col] = v
    THEN CHOOSE i \in 1..Len(tbl) : tbl[i][col] = v
    ELSE 0

\* an INSERT with no conflict clause
table_insert(db, row) ==
    [db EXCEPT !.videos = Append(@, [row EXCEPT !.id = db.seq + 1]),
               !.seq = @ + 1]

\* upsert_video on the table: INSERT, and ON CONFLICT(path) DO UPDATE SET of
\* the metadata columns of the row that holds the path
table_upsert_video(db, row) ==
    LET i == RowWhere(db.videos, "path", row.path)
    IN  IF i = 0
        THEN [db EXCEPT !.videos = Append(@, [row EXCEPT !.id = db.seq + 1]),
                        !.seq = @ + 1]
        ELSE [db EXCEPT !.videos[i] =
                [f \in DOMAIN @ |-> IF f \in MetaCols THEN row[f] ELSE @[f]]]

\* update_status on the table: UPDATE videos SET ... WHERE id = ?
table_update_status(db, video_id, status) ==
    LET i == RowWhere(db.videos, "id", video_id)
    IN  IF i = 0 THEN db
        ELSE [db EXCEPT !.videos[i].status = status]

\* log_event on the table: INSERT INTO processing_log
table_log_event(db, video_id, machine, event) ==
    [db EXCEPT !.log = log_event(@, video_id, machine, event, "")]

\* the row cmd_scan or cmd_import hands to upsert_video for a file of the size
table_row(p, size) ==
    LET info == ffprobe_info(Content(p, "orig", size, "h264", 3000000, 1920, 1080))
        decision == decide_action(info.codec, info.bitrate, info.width, info.height,
                                  FALSE, "mp4")
    IN  [id |-> 0, path |-> p, size_bytes |-> size, codec |-> info.codec,
         width |-> info.width, height |-> info.height, bitrate |-> info.bitrate,
         action |-> decision.action, target_cq |-> decision.target_cq,
         downscale_1080p |-> decision.downscale_1080p, status |-> "pending"]

\* init_db: CREATE TABLE IF NOT EXISTS
TableInit ==
    /\ probe' = IF probe.fn = "db" THEN [probe EXCEPT !.last = [op |-> "init_db"]]
                ELSE NoTables
    /\ UNCHANGED queryFrame

TableOp(db, last) ==
    /\ probe.fn = "db"
    /\ probe.ops < MaxOps
    /\ probe' = [db EXCEPT !.ops = probe.ops + 1, !.last = last]
    /\ UNCHANGED queryFrame

TableUpsert(p, size) ==
    TableOp(table_upsert_video(probe, table_row(p, size)),
            [op |-> "upsert_video", path |-> p, size_bytes |-> size,
             conflict |-> RowWhere(probe.videos, "path", p) # 0])

TableUpdateStatus(video_id, status) ==
    TableOp(table_update_status(probe, video_id, status),
            [op |-> "update_status", id |-> video_id, status |-> status])

TableLogEvent(video_id, event) ==
    TableOp(table_log_event(probe, video_id, FirstMachine, event),
            [op |-> "log_event", id |-> video_id, event |-> event])

NextTable ==
    \/ TableInit
    \/ \E p \in TablePaths, size \in QuerySizes : TableUpsert(p, size)
    \/ \E video_id \in 1..3, status \in {"claimed", "done"} :
          TableUpdateStatus(video_id, status)
    \/ \E video_id \in 1..2 : TableLogEvent(video_id, "claimed")

SpecTable == InitQuery /\ [][NextTable]_vars

\* ---------------------------------------------------------------- C23

OnePerPath ==
    probe.fn = "db" =>
        \A i, j \in 1..Len(probe.videos) :
            probe.videos[i].path = probe.videos[j].path => i = j

\* the rows stay, with their id and path, from one state of the table to the next
RowsKept ==
    probe.fn = "db" =>
        /\ probe'.fn = "db"
        /\ Len(probe'.videos) >= Len(probe.videos)
        /\ \A i \in 1..Len(probe.videos) :
              /\ probe'.videos[i].id = probe.videos[i].id
              /\ probe'.videos[i].path = probe.videos[i].path

\* an upsert of a path the table holds adds no row, writes the metadata into the
\* row of the path and leaves the other columns and the other rows as they are
UpsertInPlace ==
    probe.fn = "db" /\ probe'.last.op = "upsert_video" /\ probe' # probe
        /\ RowWhere(probe.videos, "path", probe'.last.path) # 0 =>
        LET i == RowWhere(probe.videos, "path", probe'.last.path)
        IN  /\ Len(probe'.videos) = Len(probe.videos)
            /\ probe'.videos[i].size_bytes = probe'.last.size_bytes
            /\ \A f \in DOMAIN probe.videos[i] \ MetaCols :
                  probe'.videos[i][f] = probe.videos[i][f]
            /\ \A j \in 1..Len(probe.videos) : j # i => probe'.videos[j] = probe.videos[j]

\* C23: after any sequence of ledger operations the videos table holds at most
\* one record per path, an upsert of an existing path updates the metadata of
\* the existing record instead of adding one, and no operation removes a record.
C23_OneRecordPerPath == []OnePerPath /\ [][RowsKept /\ UpsertInPlace]_vars

\* an upsert has met a row of its path that a run had marked done, beside
\* another row, and has written its size
C23_Witness ==
    /\ probe.fn = "db"
    /\ probe.last.op = "upsert_video"
    /\ probe.last.conflict
    /\ Len(probe.videos) = 2
    /\ \E i \in 1..2 : /\ probe.videos[i].path = probe.last.path
                       /\ probe.videos[i].status = "done"
                       /\ probe.videos[i].size_bytes = 20

\* ---------------------------------------------------------------- C24

\* the log of machine m before the step is the beginning of its log after it
LogExtended(m) ==
    /\ Len(log'[m]) >= Len(log[m])
    /\ SubSeq(log'[m], 1, Len(log[m])) = log[m]

\* C24: the processing log is append-only; the log before an operation is a
\* prefix of the log after it, and no entry is modified or deleted.
C24_LogAppendOnly == [][\A m \in Machines : LogExtended(m)]_vars

\* a log of three entries, of more than one kind of event
C24_Witness ==
    /\ Len(log[FirstMachine]) >= 3
    /\ Cardinality({e.event : e \in Range(log[FirstMachine])}) >= 2

\* ---------------------------------------------------------------- strategy.py, call by call

\* the values ffprobe reports (0 and "" also stand for a missing value)
ProbeDims == {0, 720, 1080, 1081, 1920, 2160, 2560, 3840}
ProbeBitrates == {0, 499999, 500000, 1999999, 2000000, 3000000}
ProbeCodecs == {"", "h264", "H264", "hevc", "HEVC", "av1", "AV1", "vp9", "mpeg4"}
ProbeExts == {"", "mp4", "MP4", "mkv", "MKV", "avi"}

\* one call of is_4k, and the call with the dimensions swapped
Is4kProbe ==
    /\ probe = NoProbe
    /\ \E width \in ProbeDims, height \in ProbeDims :
          probe' = [fn |-> "is_4k", width |-> width, height |-> height,
                    ret |-> is_4k(width, height), swapped |-> is_4k(height, width)]
    /\ UNCHANGED queryFrame

\* one call of get_scale_filter
ScaleFilterProbe ==
    /\ probe = NoProbe
    /\ \E width \in ProbeDims, height \in ProbeDims :
          probe' = [fn |-> "get_scale_filter", width |-> width, height |-> height,
                    ret |-> get_scale_filter(width, height)]
    /\ UNCHANGED queryFrame

\* one call of decide_action
DecideProbe ==
    /\ probe = NoProbe
    /\ \E codec \in ProbeCodecs, bitrate \in ProbeBitrates, width \in ProbeDims,
          height \in ProbeDims, has_v2_tag \in BOOLEAN, ext \in ProbeExts :
          probe' = [fn |-> "decide_action", codec |-> codec, bitrate |-> bitrate,
                    width |-> width, height |-> height, has_v2_tag |-> has_v2_tag,
                    ext |-> ext,
                    ret |-> decide_action(codec, bitrate, width, height, has_v2_tag, ext)]
    /\ UNCHANGED queryFrame

NextStrategy == Is4kProbe \/ ScaleFilterProbe \/ DecideProbe

SpecStrategy == InitQuery /\ [][NextStrategy]_vars

Decided == probe.fn = "decide_action"
Untagged == Decided /\ ~probe.has_v2_tag
SmallerDim == Min(probe.width, probe.height)
TargetContainer == probe.ext \in {"mp4", "MP4"}
CodecIn(names) == \E c \in names : probe.codec \in {c, Lower(c)}
SkipActions == {"skip_hevc", "skip_av1", "skip_tiny", "skip_tagged"}

\* ---------------------------------------------------------------- C25

\* C25: is_4k is true exactly when both dimensions are non-zero and the smaller
\* one exceeds 1080: true for 3840x2160 and 2160x3840, false for 1080x1920 and
\* 2560x1080, and the same for (w, h) and (h, w).
C25_Is4k ==
    probe.fn = "is_4k" =>
        /\ probe.ret = (probe.width # 0 /\ probe.height # 0 /\ SmallerDim > 1080)
        /\ probe.ret = probe.swapped
        /\ <<probe.width, probe.height>> \in {<<3840, 2160>>, <<2160, 3840>>} => probe.ret
        /\ <<probe.width, probe.height>> \in {<<1080, 1920>>, <<2560, 1080>>} => ~probe.ret

\* is_4k has answered False for 2560x1080
C25_Witness ==
    /\ probe.fn = "is_4k"
    /\ probe.width = 2560
    /\ probe.height = 1080
    /\ ~probe.ret

\* ---------------------------------------------------------------- C26

\* C26: with the tagged flag set decide_action returns skip_tagged, no target
\* quality, no downscale and no size gate, whatever the codec, bitrate,
\* dimensions and container.
C26_TagFirst ==
    Decided /\ probe.has_v2_tag =>
        probe.ret = Decision("skip_tagged", << >>, FALSE, FALSE)

\* a tagged 4K H.264 input outside the target container
C26_Witness ==
    /\ Decided
    /\ probe.has_v2_tag
    /\ SmallerDim > 1080
    /\ probe.codec = "h264"
    /\ probe.ext = "mkv"
    /\ probe.ret.action = "skip_tagged"

\* ---------------------------------------------------------------- C27

\* C27: an untagged input whose smaller dimension exceeds 1080 gives encode with
\* downscale, and the size gate exactly when the container is .mp4; an input
\* whose smaller dimension is at most 1080 is never downscaled.
C27_Downscale4k ==
    Decided =>
        /\ ~probe.has_v2_tag /\ SmallerDim > 1080 =>
              /\ probe.ret.action = "encode"
              /\ probe.ret.downscale_1080p
              /\ probe.ret.size_gate = TargetContainer
        /\ SmallerDim <= 1080 => ~probe.ret.downscale_1080p

\* an untagged 4K HEVC input outside the target container is encoded and
\* downscaled without a size gate
C27_Witness ==
    /\ Untagged
    /\ SmallerDim > 1080
    /\ probe.codec = "hevc"
    /\ probe.ext = "mkv"
    /\ probe.ret.downscale_1080p
    /\ ~probe.ret.size_gate

\* ---------------------------------------------------------------- C28

\* C28: for an untagged non-4K .mp4 input, hevc and av1 give a skip, h264 below
\* 500,000 bit/s gives skip_tiny, h264 from 500,000 bit/s on gives encode with
\* the size gate in two tiers that start at 500,000 and at 2,000,000, and every
\* other codec gives encode with the size gate.
C28_Mp4Rules ==
    Untagged /\ TargetContainer /\ ~is_4k(probe.width, probe.height) =>
        /\ CodecIn({"HEVC"}) => probe.ret = Decision("skip_hevc", << >>, FALSE, FALSE)
        /\ CodecIn({"AV1"}) => probe.ret = Decision("skip_av1", << >>, FALSE, FALSE)
        /\ CodecIn({"H264"}) /\ probe.bitrate < 500000 =>
              probe.ret = Decision("skip_tiny", << >>, FALSE, FALSE)
        /\ CodecIn({"H264"}) /\ probe.bitrate >= 500000 /\ probe.bitrate < 2000000 =>
              probe.ret = Decision("encode", <<30>>, FALSE, TRUE)
        /\ CodecIn({"H264"}) /\ probe.bitrate >= 2000000 =>
              probe.ret = Decision("encode", <<28>>, FALSE, TRUE)
        /\ ~CodecIn({"HEVC", "AV1", "H264"}) =>
              /\ probe.ret.action = "encode"
              /\ probe.ret.size_gate

\* an H.264 .mp4 at exactly 2,000,000 bit/s is in the upper tier
C28_Witness ==
    /\ Untagged
    /\ probe.ext = "mp4"
    /\ probe.codec = "h264"
    /\ probe.bitrate = 2000000
    /\ ~is_4k(probe.width, probe.height)
    /\ probe.ret.target_cq = <<28>>

\* ---------------------------------------------------------------- C29

\* C29: for an untagged non-4K input outside the target container, hevc and av1
\* give remux with no target quality and no size gate, every other codec gives
\* encode with no size gate, and no input gives a skip.
C29_NonMp4Rules ==
    Untagged /\ ~TargetContainer =>
        /\ probe.ret.action \notin SkipActions
        /\ ~is_4k(probe.width, probe.height) =>
              /\ CodecIn({"HEVC", "AV1"}) => probe.ret = Decision("remux", << >>, FALSE, FALSE)
              /\ ~CodecIn({"HEVC", "AV1"}) =>
                    /\ probe.ret.action = "encode"
                    /\ ~probe.ret.size_gate

\* an untagged 1080p HEVC .mkv is remuxed
C29_Witness ==
    /\ Untagged
    /\ probe.ext = "mkv"
    /\ probe.codec = "HEVC"
    /\ ~is_4k(probe.width, probe.height)
    /\ probe.ret.action = "remux"

\* ---------------------------------------------------------------- C30

\* C30: get_scale_filter returns scale=1080:-2 exactly when the height exceeds
\* the width and both dimensions are present, and scale=-2:1080 otherwise.
C30_ScaleFilter ==
    probe.fn = "get_scale_filter" =>
        /\ probe.ret \in {"scale=1080:-2", "scale=-2:1080"}
        /\ probe.ret = "scale=1080:-2" <=>
              (probe.width # 0 /\ probe.height # 0 /\ probe.height > probe.width)

\* a square frame gets the landscape filter
C30_Witness ==
    /\ probe.fn = "get_scale_filter"
    /\ probe.width = 1080
    /\ probe.height = 1080
    /\ probe.ret = "scale=-2:1080"

\* ---------------------------------------------------------------- C31

\* decide_action on what ffprobe reports for the file found at p, with its tag
\* flag and the extension of p
decided_for(p) ==
    LET info == ffprobe_info(orig0[p])
    IN  decide_action(info.codec, info.bitrate, info.width, info.height,
                      info.comment = ENCODER_TAG, Lower(p.ext))

\* C31: the decision a ledger records for a video is decide_action applied to
\* the probed codec, bitrate, dimensions, tag flag and the file's own container
\* extension, and the first status is pending exactly when that decision asks
\* for backend work and skipped otherwise.
C31_DecisionRecorded ==
    \A m \in Machines : \A p \in DOMAIN videos[m] :
        /\ videos[m][p].action = decided_for(p).action
        /\ videos[m][p].target_cq = decided_for(p).target_cq
        /\ videos[m][p].hist[1] =
              IF decided_for(p).action \in {"encode", "remux"} THEN "pending" ELSE "skipped"

\* ---------------------------------------------------------------- C32

\* worker m is between a claim_file(p) that returned True and the end of its
\* processing of p
Processing(m, p) ==
    /\ pc[m] \in Holding \ {"claim_write"}
    /\ ItemPath(m) = p

\* C32: mutual exclusion under sweeps. While no marker can be older than the
\* stale threshold, at most one worker at a time is between a claim_file(p)
\* that returned True and the end of its processing of p, whatever sweeps run
\* beside the claims.
C32_ExclusionUnderSweeps ==
    now < STALE_HOURS =>
        \A m, w \in Machines : \A p \in DOMAIN orig0 :
            Processing(m, p) /\ Processing(w, p) => m = w

\* ---------------------------------------------------------------- C33

\* worker m, at work on p, takes a step that unlinks the marker of p
ReleasesMarker(m, p) ==
    /\ pc[m] \in Holding
    /\ ItemPath(m) = p
    /\ pc'[m] # pc[m]
    /\ ~KillStep(m)
    /\ p \in DOMAIN claims
    /\ p \notin DOMAIN claims'

\* C33: a worker's release_claim(p) only ever removes a marker that the same
\* worker created, never the marker of another worker that has acquired p in
\* the meantime.
C33_ReleasesOwnMarker ==
    [][\A m \in Machines : \A p \in DOMAIN claims :
          ReleasesMarker(m, p) => claims[p].by = {m}]_vars

\* ---------------------------------------------------------------- C34

\* some machine other than m has committed p as compressed
CommittedElsewhere(m, p) == \E w \in Machines \ {m} : <<w, p>> \in Compressed

\* C34: no duplicated work across machines. Once one machine has committed a
\* path as compressed, no other machine that still lists the path as pending
\* starts a transcode of the file at that path, whatever runs and
\* stale-recovery sweeps follow.
C34_NoDuplicatedWork ==
    [][\A m \in Machines : \A p \in DOMAIN orig0 :
          CommittedElsewhere(m, p) => ~StartsEncode(m, p)]_vars

\* ---------------------------------------------------------------- C35

\* C35: two distinct source paths that different workers process at the same
\* time never map to the same temporary artifact path, and the output path of a
\* remux is never the path of an existing sibling file.
C35_DistinctArtifacts ==
    \A m, w \in Machines : \A p, q \in DOMAIN orig0 :
        /\ Processing(m, p) /\ Processing(w, q) /\ p # q =>
              temp_file(p) # temp_file(q)
        /\ Processing(m, p) /\ pc[m] = "remux" /\ remux_path(p) # p =>
              ~Exists(fs, remux_path(p))

\* ---------------------------------------------------------------- C36

\* _process_work_item of worker m returns after its claim_file succeeded (every
\* such return counts in stats, but for the one after the tag re-check)
ReturnsAfterClaim(m) ==
    /\ backend = "v3"
    /\ pc[m] \in Holding
    /\ pc'[m] \in {"claim", "idle"}
    /\ stats'[m] # stats[m] \/ pc[m] = "claim_write"
    /\ ~KillStep(m)

\* _process_work_item of worker m returns from its skip branch
ReturnsFromSkip(m) ==
    /\ backend = "v3"
    /\ pc[m] = "claim"
    /\ queue'[m] # queue[m]
    /\ ItemAction(m) \notin {"encode", "remux"}
    /\ ~KillStep(m)

\* C36: whenever _process_work_item returns after its claim_file succeeded, no
\* marker of the worker is left on the item's path, on every path through the
\* function; a skip action returns without touching the claim directory.
C36_ReleasedOnReturn ==
    [][\A m \in Machines :
          /\ ReturnsAfterClaim(m) =>
                \/ ItemPath(m) \notin DOMAIN claims'
                \/ claims'[ItemPath(m)].by # {m}
          /\ ReturnsFromSkip(m) => claims' = claims]_vars

\* a worker of the filesystem backend has committed one file and failed on
\* another, and the claim directory is empty
C36_Witness ==
    /\ backend = "v3"
    /\ \E m \in Machines :
          /\ stats[m]["compressed"] = 1
          /\ stats[m]["failed"] = 1
          /\ pc[m] = "idle"
    /\ claims = << >>

\* ---------------------------------------------------------------- C37

\* the file at p carries the current tag (it was committed as compressed or
\* remuxed) or has been renamed with the _skip suffix
Settled(fsys, p) ==
    \/ ffprobe_info(fsys[p]).comment = ENCODER_TAG
    \/ "_skip" \in Range(p.stem)

\* scan_folder of worker m returns
ScanReturns(m) ==
    /\ backend = "v3"
    /\ pc[m] = "scan"
    /\ pc'[m] \in {"claim", "idle"}
    /\ ~KillStep(m)

Reimport(m) ==
    /\ backend = "v2"
    /\ pc[m] = "idle"
    /\ runs + faults < MaxEvents
    /\ runs' = runs + 1
    /\ \E p \in DOMAIN videos[m], c \in Originals, audit_class \in AuditClasses,
          backup \in {<< >>, <<PathA>>} :
          LET row == import_row(p, ffprobe_info(c), audit_class, backup)
              upserted == upsert_video(videos[m], row)
              audited == audit_class \in {"bigger", "marginal", "good"} /\ backup # << >>
              final == IF audited
                       THEN update_status(upserted, p, row.status, [backup_path |-> backup])
                       ELSE upserted
          IN  /\ videos' = [videos EXCEPT ![m] = final]
              /\ probe' = [fn |-> "upsert_video", row |-> row, audited |-> audited,
                           before |-> videos[m][p], after |-> upserted[p],
                           final |-> final[p]]
    /\ UNCHANGED <<fs, bak, claims, now, backend, log, pc, queue, res, stats, claimAt,
                   sweepVars, faults, orig0>>

NextReimport == NextLedger \/ Reimport(FirstMachine)

SpecReimport == InitLedger /\ [][NextReimport]_vars

\* ---------------------------------------------------------------- C38

\* C38: upsert_video on a path the ledger holds leaves the record's status and
\* its lifecycle and result fields unchanged and writes the metadata columns
\* only, so re-discovering a compressed, failed or in-progress video never
\* resets it to pending.
C38_UpsertFrame ==
    probe.fn = "upsert_video" =>
        /\ \A f \in DOMAIN probe.before \ MetaCols : probe.after[f] = probe.before[f]
        /\ \A f \in MetaCols : probe.after[f] = probe.row[f]
        /\ probe.before.status # "pending" => probe.final.status # "pending"

\* a compressed video has been found again with another codec: its row has the
\* new codec and is still compressed, with its output and backup paths
C38_Witness ==
    /\ probe.fn = "upsert_video"
    /\ probe.before.status = "compressed"
    /\ probe.before.codec # probe.row.codec
    /\ probe.after.codec = probe.row.codec
    /\ probe.after.status = "compressed"
    /\ probe.after.backup_path # << >>
    /\ probe.row.status = "pending"

\* ---------------------------------------------------------------- C39

\* C39: every Decision of decide_action is well-formed: target_cq is set exactly
\* when the action is encode; downscale_1080p only for an encode of an input
\* whose smaller dimension exceeds 1080; size_gate only for an encode of an
\* .mp4 input; and the action is one of encode, remux, skip_hevc, skip_av1,
\* skip_tiny, skip_tagged.
C39_WellFormedDecision ==
    Decided =>
        /\ probe.ret.action \in {"encode", "remux"} \cup SkipActions
        /\ (probe.ret.target_cq # << >>) <=> (probe.ret.action = "encode")
        /\ probe.ret.downscale_1080p =>
              probe.ret.action = "encode" /\ SmallerDim > 1080
        /\ probe.ret.size_gate =>
              probe.ret.action = "encode" /\ TargetContainer

\* an untagged VP9 .mp4 of 1080p: an encode with a target quality and the size
\* gate, without downscale
C39_Witness ==
    /\ Untagged
    /\ probe.codec = "vp9"
    /\ probe.ext = "mp4"
    /\ SmallerDim = 1080
    /\ probe.ret = Decision("encode", <<30>>, FALSE, TRUE)

====
